---- MODULE Spec2Model ----
(***************************************************************************)
(* Model of the route set of src/routes.ts (with src/middleware.ts): the   *)
(* /compute-capacity handler, its business-day counter, its three-tier     *)
(* iteration selection and its capacity aggregation; the /analyze handler  *)
(* with buildPrompt and generate; the batch routes /create-tasks,          *)
(* /create-testcases, /create-stories and /update-stories; the             *)
(* /feature-stories handler; several requests in flight at once; and the   *)
(* /analyze handler of the earlier revision src/unnamed/part_002, whose    *)
(* sprint plan is asked for a number of employees.                         *)
(*                                                                         *)
(* Conventions of the model                                                *)
(*  - A Date is a number of ticks on the server's local time line,         *)
(*    TicksPerDay ticks to the calendar day; tick 0 is 1970-01-01T00:00,   *)
(*    a Thursday.  The server's zone has no daylight-saving change.        *)
(*  - A string is a sequence of characters (one-character strings), so     *)
(*    that endsWith and startsWith are computed, not assumed; << >> stands *)
(*    for a string that is absent or empty (both are falsy in the code).   *)
(*  - null dates are NoDate; a JSON value that may fail Array.isArray is a *)
(*    record [isArray, items].                                             *)
(*  - A string the code only compares for equality (a route, an action     *)
(*    keyword, a link type) is a TLA+ string, "" when absent or empty; a   *)
(*    prompt is a sequence of strings, the literal pieces of its template  *)
(*    and the characters of the values interpolated into it.               *)
(*  - The handler that the event loop is running is held in the handler    *)
(*    variables; the handlers that wait at an await are held in suspended. *)
(***************************************************************************)
EXTENDS Integers, Sequences, FiniteSets, TLC

(***************************************************************************)
(* Bounds of the model.                                                    *)
(***************************************************************************)
\* ticks per calendar day (the code's Dates count milliseconds)
TicksPerDay == 2
\* last calendar day of the dates given to countBusinessDays on its own
MaxDay == 10
\* longest list of iterations the work-tracking API returns
MaxIters == 3
\* longest list of requested iteration paths
MaxReqPaths == 3
\* largest team
MaxMembers == 4
\* longest list of capacity entries the work-tracking API returns
MaxCaps == 2
\* longest list of items in the body of a batch route
MaxItems == 2
\* number of requests in flight at once
NumRequests == 2
\* largest number of employees of a sprint-plan request
MaxEmployees == 3

VARIABLES
    pc,                      \* position of the request the event loop runs
    req,                     \* the request: headers and body
    iterations,              \* handler local: iterationsRes.data?.value || []
    mapped,                  \* handler local: dated iterations sorted by start
    now,                     \* handler local: new Date() of tier 2
    targets,                 \* handler local: the selected iterations
    tier,                    \* which tier assigned targets last (observer)
    teamMembers,             \* handler local
    allIterationCapacities,  \* handler local
    calls,                   \* outbound calls issued for the request, in order
    responses,               \* responses sent for the request, in order
    created,                 \* handler local: createdTasks, createdTestCases,
                             \* createdStories or updatedIds
    idx,                     \* handler local: position of the for-of loop
    deployment,              \* process.env: is a deployment name configured
    suspended,               \* the handlers waiting at an await, by request
    rid,                     \* the request the event loop runs
    bdStart,                 \* countBusinessDays on its own: argument start
    bdEnd,                   \* argument end
    bdResult,                \* returned count
    bdPc                     \* "input" before the call, "done" after it

vars == <<pc, req, iterations, mapped, now, targets, tier, teamMembers,
          allIterationCapacities, calls, responses, created, idx,
          deployment, suspended, rid,
          bdStart, bdEnd, bdResult, bdPc>>

handlerVars == <<pc, req, iterations, mapped, now, targets, tier, teamMembers,
                 allIterationCapacities, calls, responses, created, idx,
                 deployment, suspended, rid>>

\* the locals of the /compute-capacity handler
capacityLocals == <<iterations, mapped, now, targets, tier, teamMembers,
                    allIterationCapacities>>
\* the locals of the batch handlers
batchLocals == <<created, idx>>
\* the process: its environment and the other requests in flight
processVars == <<deployment, suspended, rid>>

bdVars == <<bdStart, bdEnd, bdResult, bdPc>>

(***************************************************************************)
(* Values.                                                                 *)
(***************************************************************************)
\* null start or finish date of an iteration
NoDate == -1
\* the Date of calendar day `day` at time of day `tod`
DateOf(day, tod) == day * TicksPerDay + tod
DayOf(t) == t \div TicksPerDay
TimeOfDay(t) == t % TicksPerDay
Dates == 0 .. DateOf(MaxDay, TicksPerDay - 1)

(***************************************************************************)
(* countBusinessDays (src/routes.ts 420-429).                              *)
(***************************************************************************)
\* Date.prototype.getDay: 0 is Sunday, 6 is Saturday; day 0 is a Thursday
getDay(t) == (DayOf(t) + 4) % 7
\* cur.setDate(cur.getDate() + 1): the same time of day, one day later
AddOneDay(t) == t + TicksPerDay

\* the loop with an exclusive end: while (cur < end)
RECURSIVE CountLoopExclusive(_, _, _)
CountLoopExclusive(cur, end, count) ==
    IF cur < end
    THEN CountLoopExclusive(AddOneDay(cur), end,
            IF getDay(cur) # 0 /\ getDay(cur) # 6 THEN count + 1 ELSE count)
    ELSE count

\* while (cur <= end) { if (day !== 0 && day !== 6) count++; cur += 1 day }
RECURSIVE CountLoop(_, _, _)
CountLoop(cur, end, count) ==
    IF cur <= end
    THEN CountLoop(AddOneDay(cur), end,
            IF getDay(cur) # 0 /\ getDay(cur) # 6 THEN count + 1 ELSE count)
    ELSE count

\* the loop as a do-while: the body runs once before the test
countBusinessDaysDoWhile(start, end) ==
    CountLoop(AddOneDay(start), end,
        IF getDay(start) # 0 /\ getDay(start) # 6 THEN 1 ELSE 0)

\* let count = 0; const cur = new Date(start); while ...; return count
countBusinessDays(start, end) == CountLoop(start, end, 0)

(***************************************************************************)
(* Strings and arrays.                                                     *)
(***************************************************************************)
\* String.prototype.startsWith
StartsWith(s, p) == Len(p) <= Len(s) /\ SubSeq(s, 1, Len(p)) = p
\* String.prototype.endsWith
EndsWith(s, p) == Len(p) <= Len(s) /\ SubSeq(s, Len(s) - Len(p) + 1, Len(s)) = p
\* String.prototype.replace(p, r) with a string pattern: the first occurrence
ReplaceFirst(s, p, r) ==
    LET at == {i \in 1 .. Len(s) - Len(p) + 1 : SubSeq(s, i, i + Len(p) - 1) = p}
    IN  IF at = {} THEN s
        ELSE LET i == CHOOSE j \in at : \A k \in at : j <= k
             IN  SubSeq(s, 1, i - 1) \o r \o SubSeq(s, i + Len(p), Len(s))
\* Array.prototype.slice(0, 3)
Slice3(s) == SubSeq(s, 1, IF Len(s) < 3 THEN Len(s) ELSE 3)
\* a JSON value that may or may not be an array
ArrayOf(items) == [isArray |-> TRUE, items |-> items]
NotAnArray == [isArray |-> FALSE, items |-> << >>]
\* every sequence over S of length at most n
SeqsUpTo(S, n) == UNION {[1 .. k -> S] : k \in 0 .. n}

\* the prefix the middleware and the handlers test for
BearerPrefix == <<"B", "e", "a", "r", "e", "r", " ">>

(***************************************************************************)
(* authMiddleware (src/middleware.ts 3-16) and the outbound calls.         *)
(***************************************************************************)
Respond(status, body) == Append(responses, [status |-> status, body |-> body])
ErrorBody(message) == [error |-> message]
\* the calls carry a token the service holds (process.env.ADO_PAT)
AccessTokenServicePat(r) == <<"p", "a", "t">>
\* const accessToken = authHeader.replace("Bearer ", "")
AccessToken(r) == ReplaceFirst(r.authorization, BearerPrefix, << >>)
\* an outbound call as the HTTP client issues it; reply is set when it settles
NoBody == [empty |-> TRUE]
NoReply == [empty |-> TRUE]
Call(api, method, token, body) ==
    [api |-> api, method |-> method, token |-> token, body |-> body,
     outcome |-> "pending", reply |-> NoReply]
\* axios.get(url, { headers: { Authorization: `Bearer ${accessToken}` } })
Get(api) == Call(api, "GET", AccessToken(req), NoBody)
IssueCall(api) == Append(calls, Get(api))
\* the call is not awaited: the handler runs on while it is outstanding
SettleNotAwaited(cs, outcome, reply) == cs
\* the awaited call settles: it resolves ("ok") with a reply or rejects ("failed")
Settle(cs, outcome, reply) ==
    [cs EXCEPT ![Len(cs)].outcome = outcome, ![Len(cs)].reply = reply]

\* the middleware lets every request with an Authorization header through
AuthMiddlewareAnyScheme ==
    /\ pc = "received"
    /\ IF req.authorization = << >>
       THEN /\ responses' = Respond(401, ErrorBody("Unauthorized"))
            /\ pc' = "done"
       ELSE /\ responses' = responses
            /\ pc' = "handler"
    /\ UNCHANGED <<req, iterations, mapped, now, targets, tier, teamMembers,
                   allIterationCapacities, calls>>
    /\ UNCHANGED <<batchLocals, processVars, bdVars>>

\* the 401 is sent without return: next() runs the handler all the same
AuthMiddlewareNoReturn ==
    /\ pc = "received"
    /\ IF req.authorization = << >> \/ ~StartsWith(req.authorization, BearerPrefix)
       THEN responses' = Respond(401, ErrorBody("Unauthorized"))
       ELSE responses' = responses
    /\ pc' = "handler"
    /\ UNCHANGED <<req, iterations, mapped, now, targets, tier, teamMembers,
                   allIterationCapacities, calls>>
    /\ UNCHANGED <<batchLocals, processVars, bdVars>>

AuthMiddleware ==
    /\ pc = "received"
    /\ IF req.authorization = << >> \/ ~StartsWith(req.authorization, BearerPrefix)
       THEN /\ responses' = Respond(401, ErrorBody("Unauthorized"))
            /\ pc' = "done"
       ELSE /\ responses' = responses
            /\ pc' = "handler"
    /\ UNCHANGED <<req, iterations, mapped, now, targets, tier, teamMembers,
                   allIterationCapacities, calls>>
    /\ UNCHANGED <<batchLocals, processVars, bdVars>>

(***************************************************************************)
(* /compute-capacity (src/routes.ts 405-542): up to the iterations call.   *)
(***************************************************************************)
ComputeCapacityEntry ==
    /\ pc = "handler"
    /\ req.route = "/compute-capacity"
    /\ IF req.org = << >> \/ req.project = << >> \/ req.team = << >>
       THEN /\ responses' = Respond(400, ErrorBody("Missing org/project/team"))
            /\ calls' = calls
            /\ pc' = "done"
       ELSE IF ~StartsWith(req.authorization, BearerPrefix)
       THEN /\ responses' = Respond(401, ErrorBody("Missing token"))
            /\ calls' = calls
            /\ pc' = "done"
       ELSE /\ responses' = responses
            /\ calls' = IssueCall("iterations")
            /\ pc' = "awaitIterations"
    /\ UNCHANGED <<req, iterations, mapped, now, targets, tier, teamMembers,
                   allIterationCapacities>>
    /\ UNCHANGED <<batchLocals, processVars, bdVars>>

\* catch (err) { res.status(500).json({ error: "Failed to compute capacities" }) }
CatchComputeCapacity ==
    /\ calls' = Settle(calls, "failed", NoReply)
    /\ responses' = Respond(500, ErrorBody("Failed to compute capacities"))
    /\ pc' = "done"

\* the awaited iterations call rejects
IterationsFail ==
    /\ pc = "awaitIterations"
    /\ CatchComputeCapacity
    /\ UNCHANGED <<req, iterations, mapped, now, targets, tier, teamMembers,
                   allIterationCapacities>>
    /\ UNCHANGED <<batchLocals, processVars, bdVars>>

(***************************************************************************)
(* Iteration selection (src/routes.ts 437-466).                            *)
(***************************************************************************)
\* { path: it.path || it.name, start: startDate ? new Date(..) : null, finish: .. }
MapIteration(it) ==
    [path |-> IF it.path # << >> THEN it.path ELSE it.name,
     start |-> it.startDate,
     finish |-> it.finishDate]
\* .filter(it => it.start && it.finish)
IsDated(m) == m.start # NoDate /\ m.finish # NoDate
\* one step of the stable sort: m goes behind every element that does not start later
InsertByStart(sorted, m) ==
    LET k == Cardinality({i \in DOMAIN sorted : sorted[i].start <= m.start})
    IN  SubSeq(sorted, 1, k) \o <<m>> \o SubSeq(sorted, k + 1, Len(sorted))
\* .sort((a, b) => a.start.getTime() - b.start.getTime()): stable
RECURSIVE SortByStart(_)
SortByStart(s) ==
    IF s = << >> THEN << >>
    ELSE InsertByStart(SortByStart(SubSeq(s, 1, Len(s) - 1)), s[Len(s)])
\* iterations.map(..).filter(..).sort(..)
Mapped(value) ==
    LET all == [i \in DOMAIN value |-> MapIteration(value[i])]
    IN  SortByStart(SelectSeq(all, IsDated))
\* m.path === p || m.path?.endsWith(p)
Matches(m, p) == m.path = p \/ EndsWith(m.path, p)
\* mapped.find(..): the index of the first match, 0 when there is none
FindIndex(ms, p) ==
    LET at == {i \in DOMAIN ms : Matches(ms[i], p)}
    IN  IF at = {} THEN 0 ELSE CHOOSE i \in at : \A j \in at : i <= j
\* for (const p of ..) { const found = mapped.find(..); if (found) targets.push(found) }
RECURSIVE ResolveAll(_, _)
ResolveAll(ps, ms) ==
    IF ps = << >> THEN << >>
    ELSE (IF FindIndex(ms, Head(ps)) # 0 THEN <<ms[FindIndex(ms, Head(ps))]>> ELSE << >>)
         \o ResolveAll(Tail(ps), ms)
\* mapped.filter(m => m.finish >= now)
Upcoming(ms, t) ==
    LET NotOver(m) == m.finish >= t
    IN  SelectSeq(ms, NotOver)

\* tier 1 is skipped: the requested paths are never looked at
SelectTargetsNoTier1(paths, ms, t) ==
    LET t2 == Slice3(Upcoming(ms, t))
    IN  IF Len(t2) < 3
        THEN [targets |-> Slice3(ms), tier |-> 3, now |-> t]
        ELSE [targets |-> t2, tier |-> 2, now |-> t]

\* tier 2 keeps the partly resolved targets and fills up with upcoming iterations
SelectTargetsKeepPartial(paths, ms, t) ==
    LET t1 == IF paths.isArray /\ Len(paths.items) >= 3
              THEN ResolveAll(Slice3(paths.items), ms) ELSE << >>
        t2 == IF Len(t1) < 3 THEN Slice3(t1 \o Upcoming(ms, t)) ELSE t1
        t3 == IF Len(t2) < 3 THEN Slice3(ms) ELSE t2
    IN  [targets |-> t3,
         tier |-> IF Len(t1) >= 3 THEN 1 ELSE IF Len(t2) >= 3 THEN 2 ELSE 3,
         now |-> IF Len(t1) < 3 THEN t ELSE NoDate]

\* tier 3 does not look at what tier 1 produced: it replaces the targets whenever
\* fewer than three iterations are upcoming
SelectTargetsTier3Eager(paths, ms, t) ==
    LET t1 == IF paths.isArray /\ Len(paths.items) >= 3
              THEN ResolveAll(Slice3(paths.items), ms) ELSE << >>
    IN  IF Len(Upcoming(ms, t)) < 3
        THEN [targets |-> Slice3(ms), tier |-> 3, now |-> t]
        ELSE IF Len(t1) < 3
        THEN [targets |-> Slice3(Upcoming(ms, t)), tier |-> 2, now |-> t]
        ELSE [targets |-> t1, tier |-> 1, now |-> NoDate]

\* lines 450-466: targets after the three tiers, the tier that assigned them last,
\* and the `now` of tier 2 (created only when tier 2 runs)
SelectTargets(paths, ms, t) ==
    LET t1 == IF paths.isArray /\ Len(paths.items) >= 3
              THEN ResolveAll(Slice3(paths.items), ms) ELSE << >>
        t2 == IF Len(t1) < 3 THEN Slice3(Upcoming(ms, t)) ELSE t1
        t3 == IF Len(t2) < 3 THEN Slice3(ms) ELSE t2
    IN  [targets |-> t3,
         tier |-> IF Len(t1) >= 3 THEN 1 ELSE IF Len(t2) >= 3 THEN 2 ELSE 3,
         now |-> IF Len(t1) < 3 THEN t ELSE NoDate]

\* the awaited iterations call resolves with data.value = value at time t
IterationsOk(value, t) ==
    /\ pc = "awaitIterations"
    /\ iterations' = value
    /\ mapped' = Mapped(value)
    /\ LET sel == SelectTargets(req.iterationPaths, Mapped(value), t)
       IN  /\ targets' = sel.targets
           /\ tier' = sel.tier
           /\ now' = sel.now
    /\ calls' = Append(Settle(calls, "ok", value), Get("members"))
    /\ pc' = "awaitMembers"
    /\ UNCHANGED <<req, teamMembers, allIterationCapacities, responses>>
    /\ UNCHANGED <<batchLocals, processVars, bdVars>>

(***************************************************************************)
(* Team members (src/routes.ts 468-480).                                   *)
(***************************************************************************)
\* a team size of 0 for an empty member list: teamMembers.length
teamSizeNoFloor(members) == Len(members)

\* const teamSize = teamMembers.length || 1
teamSize(members) == IF Len(members) # 0 THEN Len(members) ELSE 1

\* the member-list failure is not caught: the request fails
MembersFailFatal ==
    /\ pc = "awaitMembers"
    /\ CatchComputeCapacity
    /\ UNCHANGED <<req, iterations, mapped, now, targets, tier, teamMembers,
                   allIterationCapacities>>
    /\ UNCHANGED <<batchLocals, processVars, bdVars>>

\* the awaited member-list call rejects: caught, warned, teamMembers stays []
MembersFail ==
    /\ pc = "awaitMembers"
    /\ teamMembers' = << >>
    /\ calls' = Append(Settle(calls, "failed", NoReply), Get("capacities"))
    /\ pc' = "awaitCapacities"
    /\ UNCHANGED <<req, iterations, mapped, now, targets, tier,
                   allIterationCapacities, responses>>
    /\ UNCHANGED <<batchLocals, processVars, bdVars>>

\* the awaited member-list call resolves with data.value = value
MembersOk(value) ==
    /\ pc = "awaitMembers"
    /\ teamMembers' = IF value.isArray THEN value.items ELSE << >>
    /\ calls' = Append(Settle(calls, "ok", value), Get("capacities"))
    /\ pc' = "awaitCapacities"
    /\ UNCHANGED <<req, iterations, mapped, now, targets, tier,
                   allIterationCapacities, responses>>
    /\ UNCHANGED <<batchLocals, processVars, bdVars>>

(***************************************************************************)
(* Capacity aggregation (src/routes.ts 497-537).                           *)
(***************************************************************************)
\* Math.max(0, x)
Max0(x) == IF x > 0 THEN x ELSE 0
\* Math.max(0, capPerDay * (totalWorkDays - daysOff)); an absent field is 0
ActivityCapacity(activity, totalWorkDays) ==
    Max0(activity.capacityPerDay * (totalWorkDays - activity.daysOff))
\* for (const activity of cap.activities) total += ..
RECURSIVE SumActivities(_, _)
SumActivities(activities, totalWorkDays) ==
    IF activities = << >> THEN 0
    ELSE ActivityCapacity(Head(activities), totalWorkDays)
         + SumActivities(Tail(activities), totalWorkDays)
\* if (cap.iterationPath && cap.iterationPath === it.path) if (Array.isArray(cap.activities))
CapApplies(cap, it) ==
    /\ cap.iterationPath # << >>
    /\ cap.iterationPath = it.path
    /\ cap.activities.isArray
\* for (const cap of allIterationCapacities) ..
RECURSIVE SumCapacities(_, _, _)
SumCapacities(caps, it, totalWorkDays) ==
    IF caps = << >> THEN 0
    ELSE (IF CapApplies(Head(caps), it)
          THEN SumActivities(Head(caps).activities.items, totalWorkDays) ELSE 0)
         + SumCapacities(Tail(caps), it, totalWorkDays)

\* the team-size formula replaces the detailed sum whenever the team is known
IterationCapacityAlwaysFallback(it, size, caps) ==
    countBusinessDays(it.start, it.finish) * size

\* the detailed sum is reported as it is, also when it is 0
IterationCapacityNoFallback(it, size, caps) ==
    Max0(SumCapacities(caps, it, countBusinessDays(it.start, it.finish)))

\* lines 506-534: the capacity of one selected iteration
IterationCapacity(it, size, caps) ==
    LET totalWorkDays == countBusinessDays(it.start, it.finish)
        detailed == SumCapacities(caps, it, totalWorkDays)
        total == IF detailed = 0 /\ size > 0 THEN totalWorkDays * size ELSE detailed
    IN  Max0(total)

\* a slot without an iteration repeats the team size instead of 0
CapacitiesLoopPadded(ts, size, caps) ==
    [i \in 1 .. 3 |->
        IF i > Len(ts) THEN size ELSE IterationCapacity(ts[i], size, caps)]

\* for (let i = 0; i < 3; i++) { if (!it || !it.start || !it.finish) push(0) else .. }
CapacitiesLoop(ts, size, caps) ==
    [i \in 1 .. 3 |->
        IF i > Len(ts) \/ ts[i].start = NoDate \/ ts[i].finish = NoDate
        THEN 0
        ELSE IterationCapacity(ts[i], size, caps)]
\* { capacities: { n: c[0] || 0, n1: c[1] || 0, n2: c[2] || 0 }, iterations: targets.map(t => t.path) }
CapacityBody(capacities, ts) ==
    [capacities |-> [n |-> capacities[1], n1 |-> capacities[2], n2 |-> capacities[3]],
     iterations |-> [i \in DOMAIN ts |-> ts[i].path]]

\* the capacities failure is answered 200 with zero capacities
CapacitiesFailSwallowed ==
    /\ pc = "awaitCapacities"
    /\ calls' = Settle(calls, "failed", NoReply)
    /\ responses' = Respond(200, CapacityBody(<<0, 0, 0>>, targets))
    /\ pc' = "done"
    /\ UNCHANGED <<req, iterations, mapped, now, targets, tier, teamMembers,
                   allIterationCapacities>>
    /\ UNCHANGED <<batchLocals, processVars, bdVars>>

\* the awaited capacities call rejects
CapacitiesFail ==
    /\ pc = "awaitCapacities"
    /\ CatchComputeCapacity
    /\ UNCHANGED <<req, iterations, mapped, now, targets, tier, teamMembers,
                   allIterationCapacities>>
    /\ UNCHANGED <<batchLocals, processVars, bdVars>>

\* the awaited capacities call resolves with data.value = value
CapacitiesOk(value) ==
    /\ pc = "awaitCapacities"
    /\ allIterationCapacities' = value
    /\ calls' = Settle(calls, "ok", value)
    /\ responses' = Respond(200,
            CapacityBody(CapacitiesLoop(targets, teamSize(teamMembers), value), targets))
    /\ pc' = "done"
    /\ UNCHANGED <<req, iterations, mapped, now, targets, tier, teamMembers>>
    /\ UNCHANGED <<batchLocals, processVars, bdVars>>

(***************************************************************************)
(* countBusinessDays called on its own.                                    *)
(***************************************************************************)
BdCall ==
    /\ bdPc = "input"
    /\ bdResult' = countBusinessDays(bdStart, bdEnd)
    /\ bdPc' = "done"
    /\ UNCHANGED <<bdStart, bdEnd>>
    /\ UNCHANGED handlerVars

(***************************************************************************)
(* buildPrompt (src/routes.ts 549-747).  The literal text of a template is *)
(* kept in pieces, each piece one string; the long pieces are cut to their *)
(* first and last words.                                                   *)
(***************************************************************************)
\* `${x}` of an absent value
Undefined == <<"u", "n", "d", "e", "f", "i", "n", "e", "d">>
Interpolate(x) == IF x = << >> THEN Undefined ELSE x
\* `${n}` of a number below 100
Digit(d) == <<"0", "1", "2", "3", "4", "5", "6", "7", "8", "9">>[d + 1]
NumText(n) == IF n < 10 THEN <<Digit(n)>> ELSE <<Digit(n \div 10), Digit(n % 10)>>
\* `${sprintPoints?.n}`
PointText(sprintPoints, n) == IF sprintPoints.present THEN NumText(n) ELSE Undefined
\* `${JSON.stringify(stories, null, 2)}` of an absent value and of an empty array
JsonText(stories) ==
    CASE ~stories.isArray -> Undefined
      [] stories.isArray /\ stories.items = << >> -> <<"[", "]">>

\* the fallback returns the description template instead of the title
buildPromptNoFallback(title, desc, type, action, sprintPoints, stories) ==
    <<"Write a clear, professional Azure DevOps description ... for the following ">>
        \o Interpolate(type) \o <<": ">> \o Interpolate(title)
        \o <<". Directly give descriptiion no need of heading">>

buildPrompt(title, desc, type, action, sprintPoints, stories) ==
    CASE action = "sprintplan" ->
            <<"You are an Agile Sprint Planning Assistant. ... Feature Title: ">>
                \o Interpolate(title)
                \o <<"Sprint Capacities: - Sprint N: ">>
                \o PointText(sprintPoints, sprintPoints.n)
                \o <<"- Sprint N+1: ">> \o PointText(sprintPoints, sprintPoints.n1)
                \o <<"- Sprint N+2: ">> \o PointText(sprintPoints, sprintPoints.n2)
                \o <<"User Stories (in given order): ">> \o JsonText(stories)
                \o <<"PLANNING RULES (STRICT): ... JSON must be valid">>
      [] action = "stories" ->
            <<"You are a Senior Product Owner. ... Feature Title: ">>
                \o Interpolate(title)
                \o <<"Feature Description: ">> \o Interpolate(desc)
      [] action = "tasks" ->
            <<"You are a Senior Azure DevOps Engineer. ... User Story Title: ">>
                \o Interpolate(title)
                \o <<"User Story Description: ">> \o Interpolate(desc)
      [] action = "testcases" ->
            <<"You are a Senior QA Engineer. Generate ... User Story Title: ">>
                \o Interpolate(title)
                \o <<"User Story Description: ">> \o Interpolate(desc)
      [] action = "description" ->
            <<"Write a clear, professional Azure DevOps description ... for the following ">>
                \o Interpolate(type) \o <<": ">> \o Interpolate(title)
                \o <<". Directly give descriptiion no need of heading">>
      [] action = "criteria" ->
            <<"Generate professional acceptance criteria ... User Story: ">>
                \o Interpolate(title)
                \o <<". Directly give Acceptance criteria ... each point">>
      [] action = "tests" ->
            <<"You are a Senior QA Engineer. Create test cases for: ">>
                \o Interpolate(title)
      [] action = "bug" ->
            <<"Summarize this bug clearly and professionally: ">> \o Interpolate(desc)
      [] OTHER -> title

(***************************************************************************)
(* buildPrompt of the revision src/unnamed/part_002 (366-711): the sprint  *)
(* plan is asked for a number of employees, [present, n]; the other cases  *)
(* interpolate the values that the cases of src/routes.ts interpolate.     *)
(***************************************************************************)
\* `${employees}`
EmployeesText(employees) == IF employees.present THEN NumText(employees.n) ELSE Undefined
\* `${employees ?? 0 * 10}`: the product binds tighter than ??, so this is
\* employees ?? (0 * 10)
CapacityPerSprintText(employees) ==
    IF employees.present THEN NumText(employees.n) ELSE NumText(0 * 10)

buildPromptEmployees(title, desc, type, action, employees, stories) ==
    CASE action = "sprintplan" ->
            <<"You are an Agile Sprint Planning Expert. ... INPUT: Employees: ">>
                \o EmployeesText(employees)
                \o <<"Capacity Per Employee: 10 Story Points Capacity Per Sprint: ">>
                \o CapacityPerSprintText(employees)
                \o <<" Story Points User Stories: ">> \o JsonText(stories)
                \o <<"OBJECTIVE: ... \"summary\": { \"employees\": ">>
                \o EmployeesText(employees)
                \o <<", \"capacityPerEmployee\": 10, \"capacityPerSprint\": ">>
                \o CapacityPerSprintText(employees)
                \o <<", \"totalStoryPoints\": <calculated> } }">>
      [] OTHER ->
            buildPrompt(title, desc, type, action,
                        [present |-> FALSE, n |-> 0, n1 |-> 0, n2 |-> 0], stories)

(***************************************************************************)
(* generate (src/routes.ts 763-791) and /analyze (src/routes.ts 113-133).  *)
(***************************************************************************)
\* the key the generation client is constructed with
ApiKey == <<"k", "e", "y">>
\* completion.choices?.[0]?.message?.content
MessageContent(completion) ==
    IF completion.choices.isArray /\ Len(completion.choices.items) >= 1
    THEN completion.choices.items[1].content
    ELSE [isString |-> FALSE, text |-> << >>]
\* the output is the content only when it parses as JSON, "" otherwise
OutputValidated(completion) ==
    IF MessageContent(completion).isString
       /\ MessageContent(completion).text # << >>
       /\ Head(MessageContent(completion).text) = "{"
    THEN MessageContent(completion).text
    ELSE << >>
\* if (typeof message === "string") return message; return ""
Output(completion) ==
    IF MessageContent(completion).isString
    THEN MessageContent(completion).text
    ELSE << >>

\* the handler up to its await; generate throws before its call when no
\* deployment name is configured, and the handler's catch answers 500
AnalyzeEntry ==
    /\ pc = "handler"
    /\ req.route = "/analyze"
    /\ IF req.title = << >> \/ req.action = ""
       THEN /\ responses' = Respond(400, ErrorBody("Missing title or action"))
            /\ calls' = calls
            /\ pc' = "done"
       ELSE IF ~deployment
       THEN /\ responses' = Respond(500, ErrorBody("AI failure"))
            /\ calls' = calls
            /\ pc' = "done"
       ELSE /\ responses' = responses
            /\ calls' = Append(calls,
                   Call("generation", "POST", ApiKey,
                        [prompt |-> buildPrompt(req.title, req.description, req.type,
                                                req.action, req.sprintPoints,
                                                req.stories)]))
            /\ pc' = "awaitGenerate"
    /\ UNCHANGED <<req, capacityLocals, batchLocals, processVars, bdVars>>

\* the generation call rejects: generate rethrows, the handler's catch answers
GenerateFail ==
    /\ pc = "awaitGenerate"
    /\ calls' = Settle(calls, "failed", NoReply)
    /\ responses' = Respond(500, ErrorBody("AI failure"))
    /\ pc' = "done"
    /\ UNCHANGED <<req, capacityLocals, batchLocals, processVars, bdVars>>

\* the generation call resolves with a completion
GenerateOk(completion) ==
    /\ pc = "awaitGenerate"
    /\ calls' = Settle(calls, "ok", completion)
    /\ responses' = Respond(200, [output |-> Output(completion)])
    /\ pc' = "done"
    /\ UNCHANGED <<req, capacityLocals, batchLocals, processVars, bdVars>>

\* /analyze of the revision src/unnamed/part_002 (116-138), up to its await
AnalyzeEmployeesEntry ==
    /\ pc = "handler"
    /\ req.route = "/analyze"
    /\ IF req.title = << >> \/ req.action = ""
       THEN /\ responses' = Respond(400, ErrorBody("Missing title or action"))
            /\ calls' = calls
            /\ pc' = "done"
       ELSE IF ~deployment
       THEN /\ responses' = Respond(500, ErrorBody("AI failure"))
            /\ calls' = calls
            /\ pc' = "done"
       ELSE /\ responses' = responses
            /\ calls' = Append(calls,
                   Call("generation", "POST", ApiKey,
                        [prompt |-> buildPromptEmployees(req.title, req.description,
                                        req.type, req.action, req.employees,
                                        req.stories)]))
            /\ pc' = "awaitGenerate"
    /\ UNCHANGED <<req, capacityLocals, batchLocals, processVars, bdVars>>

(***************************************************************************)
(* The batch routes: /create-tasks (src/routes.ts 140-211),                *)
(* /create-testcases (215-288), /create-stories (292-356) and              *)
(* /update-stories (359-401).  A request holds org, project, the parent id *)
(* (userStoryId or featureId, 0 when absent) and the list items (tasks,    *)
(* testCases or stories); an item is null or an object with an id (0 when  *)
(* absent), a title (<< >> when undefined), storyPoints (NoPoints when     *)
(* undefined), steps and a dependency, and a description, a priority and a *)
(* risk that the items of the model leave undefined (<< >>, 0 and "").     *)
(* The body of a call of a batch route is [item, value, document]: the     *)
(* position and the element of the list the call is for, and the           *)
(* JSON-Patch document sent.                                               *)
(***************************************************************************)
NoPoints == -1
\* what each batch handler sends and answers
Batch(route) ==
    CASE route = "/create-tasks" ->
            [api |-> "workitems/$Task", method |-> "POST", parent |-> TRUE,
             failure |-> "Task creation failed"]
      [] route = "/create-testcases" ->
            [api |-> "workitems/$Test%20Case", method |-> "PATCH", parent |-> TRUE,
             failure |-> "Test case creation failed"]
      [] route = "/create-stories" ->
            [api |-> "workitems/$User%20Story", method |-> "POST", parent |-> TRUE,
             failure |-> "Story creation failed"]
      [] route = "/update-stories" ->
            [api |-> "workitems/${story.id}", method |-> "PATCH", parent |-> FALSE,
             failure |-> "Update failed"]
\* res.json({ success: true, createdTasks }) and its like
SuccessBody(route, ids) ==
    CASE route = "/create-tasks" -> [success |-> TRUE, createdTasks |-> ids]
      [] route = "/create-testcases" -> [success |-> TRUE, createdTestCases |-> ids]
      [] route = "/create-stories" -> [success |-> TRUE, createdStories |-> ids]
      [] route = "/update-stories" -> [success |-> TRUE, updatedIds |-> ids]

\* the validation skips Array.isArray
BatchInvalidNoArrayCheck(r) ==
    \/ r.org = << >>
    \/ r.project = << >>
    \/ Batch(r.route).parent /\ r.parentId = 0
\* if (!org || !project || !userStoryId || !Array.isArray(tasks))
BatchInvalid(r) ==
    \/ r.org = << >>
    \/ r.project = << >>
    \/ Batch(r.route).parent /\ r.parentId = 0
    \/ ~r.items.isArray

\* the body of the loop throws a TypeError before it calls: task.title of
\* null, testCase.steps.map of an absent steps
Throws(route, item) ==
    \/ item.isNull
    \/ route = "/create-testcases" /\ ~item.steps.isArray
\* { op: "add", path, value }
Op(path, value) == [op |-> "add", path |-> path, value |-> value]
\* the link to the parent: `https://dev.azure.com/${org}/${project}/_apis/wit/workItems/${id}`
ParentLink(r) ==
    Op("/relations/-",
       [rel |-> "System.LinkTypes.Hierarchy-Reverse",
        url |-> [org |-> r.org, project |-> r.project, workItem |-> r.parentId]])
\* `<steps id="0">` + testCase.steps.map((s, i) => `<step id="${i + 1}" ..>..</step>`)
\*                                  .join("") + `</steps>`
RECURSIVE StepsFrom(_, _)
StepsFrom(steps, i) ==
    IF i > Len(steps) THEN << >>
    ELSE <<"<step id=\"", Digit(i), "\" type=\"ActionStep\">", steps[i], "</step>">>
         \o StepsFrom(steps, i + 1)
StepsXml(steps) == <<"<steps id=\"0\">">> \o StepsFrom(steps, 1) \o <<"</steps>">>
\* the operations are pushed for the fields that are truthy
UpdateOpsTruthy(story) ==
    (IF story.title # << >>
     THEN <<Op("/fields/System.Title", story.title)>> ELSE << >>)
    \o (IF story.storyPoints # NoPoints /\ story.storyPoints # 0
        THEN <<Op("/fields/Microsoft.VSTS.Scheduling.StoryPoints", story.storyPoints)>>
        ELSE << >>)
\* if (story.title !== undefined) ops.push(..); if (story.storyPoints !== undefined) ops.push(..)
UpdateOps(story) ==
    (IF story.title # << >>
     THEN <<Op("/fields/System.Title", story.title)>> ELSE << >>)
    \o (IF story.storyPoints # NoPoints
        THEN <<Op("/fields/Microsoft.VSTS.Scheduling.StoryPoints", story.storyPoints)>>
        ELSE << >>)
\* the JSON-Patch document each route sends for an item
PatchDocument(r, item) ==
    CASE r.route = "/create-tasks" ->
            <<Op("/fields/System.Title", item.title),
              Op("/fields/System.Description", item.description),
              ParentLink(r)>>
      [] r.route = "/create-testcases" ->
            <<Op("/fields/System.Title", item.title),
              Op("/fields/Microsoft.VSTS.TCM.Steps", StepsXml(item.steps.items)),
              ParentLink(r)>>
      [] r.route = "/create-stories" ->
            <<Op("/fields/System.Title", item.title),
              Op("/fields/System.Description", item.description),
              Op("/fields/Microsoft.VSTS.Scheduling.StoryPoints", item.storyPoints),
              Op("/fields/Microsoft.VSTS.Common.Priority", item.priority),
              Op("/fields/Microsoft.VSTS.Common.Risk", item.risk),
              ParentLink(r)>>
            \o (IF item.dependency # << >>
                THEN <<Op("/fields/System.History",
                          <<"Dependency: ">> \o item.dependency)>>
                ELSE << >>)
      [] r.route = "/update-stories" -> UpdateOps(item)
\* if (!story.id) continue; ... if (ops.length > 0) { ... }
Skips(route, item) ==
    /\ route = "/update-stories"
    /\ \/ item.id = 0
       \/ Len(UpdateOps(item)) = 0

\* the for-of loop from position i to its next await, its throw or its end
RECURSIVE LoopFrom(_, _)
LoopFrom(r, i) ==
    IF i > Len(r.items.items) THEN [kind |-> "end", at |-> i]
    ELSE IF Throws(r.route, r.items.items[i]) THEN [kind |-> "throw", at |-> i]
    ELSE IF Skips(r.route, r.items.items[i]) THEN LoopFrom(r, i + 1)
    ELSE [kind |-> "await", at |-> i]

\* the list grows at its front
PushFront(list, id) == <<id>> \o list
\* createdTasks.push(id)
Push(list, id) == Append(list, id)

\* the handler runs on from position i, with the ids pushed and the calls
\* issued so far, to its next await or to its response
RunBatch(i, ids, cs) ==
    LET step == LoopFrom(req, i)
    IN  /\ idx' = step.at
        /\ created' = ids
        /\ CASE step.kind = "await" ->
                  /\ calls' = Append(cs,
                         Call(Batch(req.route).api, Batch(req.route).method,
                              AccessToken(req),
                              [item |-> step.at, value |-> req.items.items[step.at],
                               document |->
                                   PatchDocument(req, req.items.items[step.at])]))
                  /\ responses' = responses
                  /\ pc' = "awaitItem"
             [] step.kind = "throw" ->
                  /\ calls' = cs
                  /\ responses' = Respond(500, ErrorBody(Batch(req.route).failure))
                  /\ pc' = "done"
             [] step.kind = "end" ->
                  /\ calls' = cs
                  /\ responses' = Respond(200, SuccessBody(req.route, ids))
                  /\ pc' = "done"

\* the handler of a batch route up to its first await
BatchEntry(route) ==
    /\ pc = "handler"
    /\ req.route = route
    /\ IF BatchInvalid(req)
       THEN /\ responses' = Respond(400, ErrorBody("Invalid payload"))
            /\ pc' = "done"
            /\ UNCHANGED <<calls, created, idx>>
       ELSE IF ~StartsWith(req.authorization, BearerPrefix)
       THEN /\ responses' = Respond(401, ErrorBody("Missing token"))
            /\ pc' = "done"
            /\ UNCHANGED <<calls, created, idx>>
       ELSE RunBatch(1, << >>, calls)
    /\ UNCHANGED <<req, capacityLocals, processVars, bdVars>>

\* the awaited call resolves with response.data = data: the create routes
\* push data.id, /update-stories pushes story.id
BatchOk(route, data) ==
    /\ pc = "awaitItem"
    /\ req.route = route
    /\ RunBatch(idx + 1,
                Push(created, IF route = "/update-stories"
                              THEN req.items.items[idx].id ELSE data.id),
                Settle(calls, "ok", data))
    /\ UNCHANGED <<req, capacityLocals, processVars, bdVars>>

\* the failed call is swallowed and the loop goes on with the next item
BatchFailContinue(route) ==
    /\ pc = "awaitItem"
    /\ req.route = route
    /\ RunBatch(idx + 1, created, Settle(calls, "failed", NoReply))
    /\ UNCHANGED <<req, capacityLocals, processVars, bdVars>>
\* the awaited call rejects: catch (err) { res.status(500).json({ error }) }
BatchFail(route) ==
    /\ pc = "awaitItem"
    /\ req.route = route
    /\ calls' = Settle(calls, "failed", NoReply)
    /\ responses' = Respond(500, ErrorBody(Batch(route).failure))
    /\ pc' = "done"
    /\ UNCHANGED <<req, created, idx, capacityLocals, processVars, bdVars>>

CreateTasksEntry == BatchEntry("/create-tasks")
CreateTasksOk(data) == BatchOk("/create-tasks", data)
CreateTasksFail == BatchFail("/create-tasks")
CreateTestcasesEntry == BatchEntry("/create-testcases")
CreateTestcasesOk(data) == BatchOk("/create-testcases", data)
CreateTestcasesFail == BatchFail("/create-testcases")
CreateStoriesEntry == BatchEntry("/create-stories")
CreateStoriesOk(data) == BatchOk("/create-stories", data)
CreateStoriesFail == BatchFail("/create-stories")
UpdateStoriesEntry == BatchEntry("/update-stories")
UpdateStoriesOk(data) == BatchOk("/update-stories", data)
UpdateStoriesFail == BatchFail("/update-stories")

(***************************************************************************)
(* /feature-stories (src/routes.ts 35-104).  A relation is [rel, url], the *)
(* url as the sequence of its segments between "/"; a work item is         *)
(* [id, fields], an absent field being << >>, 0 or "".                     *)
(***************************************************************************)
FeatureStoriesEntry ==
    /\ pc = "handler"
    /\ req.route = "/feature-stories"
    /\ IF ~StartsWith(req.authorization, BearerPrefix)
       THEN /\ responses' = Respond(401, ErrorBody("Missing token"))
            /\ calls' = calls
            /\ pc' = "done"
       ELSE /\ responses' = responses
            /\ calls' = IssueCall("feature")
            /\ pc' = "awaitFeature"
    /\ UNCHANGED <<req, capacityLocals, batchLocals, processVars, bdVars>>

\* catch (err) { res.status(500).json({ error: "Failed to fetch feature stories" }) }
CatchFeatureStories ==
    /\ calls' = Settle(calls, "failed", NoReply)
    /\ responses' = Respond(500, ErrorBody("Failed to fetch feature stories"))
    /\ pc' = "done"
    /\ UNCHANGED <<req, capacityLocals, batchLocals, processVars, bdVars>>

FeatureFail == pc = "awaitFeature" /\ CatchFeatureStories

\* every relation is taken for a child, whatever its type
RECURSIVE StoryIdsAnyType(_)
StoryIdsAnyType(relations) ==
    IF relations = << >> THEN << >>
    ELSE <<Head(relations).url[Len(Head(relations).url)]>>
         \o StoryIdsAnyType(Tail(relations))

\* relations.filter(rel => rel.rel === "System.LinkTypes.Hierarchy-Forward")
\*          .map(rel => rel.url.split("/").pop())
RECURSIVE StoryIds(_)
StoryIds(relations) ==
    IF relations = << >> THEN << >>
    ELSE IF Head(relations).rel = "System.LinkTypes.Hierarchy-Forward"
    THEN <<Head(relations).url[Len(Head(relations).url)]>> \o StoryIds(Tail(relations))
    ELSE StoryIds(Tail(relations))

\* the feature call resolves with data: featureResponse.data.relations || []
FeatureOk(data) ==
    /\ pc = "awaitFeature"
    /\ LET relations == IF data.relations.isArray THEN data.relations.items ELSE << >>
           storyIds == StoryIds(relations)
       IN  IF storyIds = << >>
           THEN /\ calls' = Settle(calls, "ok", data)
                /\ responses' = Respond(200, [stories |-> << >>])
                /\ pc' = "done"
           ELSE /\ calls' = Append(Settle(calls, "ok", data),
                                   Call("workitemsbatch", "POST", AccessToken(req),
                                        [ids |-> storyIds]))
                /\ responses' = responses
                /\ pc' = "awaitStories"
    /\ UNCHANGED <<req, capacityLocals, batchLocals, processVars, bdVars>>

StoriesFail == pc = "awaitStories" /\ CatchFeatureStories

\* storiesResponse.data.value.map(wi => ({ id, title, description || "", ... }))
MapStory(wi) ==
    [id |-> wi.id,
     title |-> wi.fields.title,
     description |-> wi.fields.description,
     storyPoints |-> wi.fields.storyPoints,
     priority |-> IF wi.fields.priority = 0 THEN 2 ELSE wi.fields.priority,
     risk |-> IF wi.fields.risk = "" THEN "Medium" ELSE wi.fields.risk]

StoriesOk(data) ==
    /\ pc = "awaitStories"
    /\ calls' = Settle(calls, "ok", data)
    /\ responses' = Respond(200,
           [stories |-> [k \in DOMAIN data.value |-> MapStory(data.value[k])]])
    /\ pc' = "done"
    /\ UNCHANGED <<req, capacityLocals, batchLocals, processVars, bdVars>>

(***************************************************************************)
(* Several requests in flight.  Every handler is a closure over its own    *)
(* req and its own locals (src/routes.ts declares no variable outside the  *)
(* handlers but router and the generation client); the event loop runs one *)
(* handler up to its await and then any handler whose call has settled.    *)
(***************************************************************************)
Frame ==
    [pc |-> pc, req |-> req, iterations |-> iterations, mapped |-> mapped,
     now |-> now, targets |-> targets, tier |-> tier, teamMembers |-> teamMembers,
     allIterationCapacities |-> allIterationCapacities, calls |-> calls,
     responses |-> responses, created |-> created, idx |-> idx]

\* the frames of the handlers that wait once the running one is parked
Parked(k) ==
    [j \in (DOMAIN suspended \ {k}) \cup {rid} |->
        IF j = rid THEN Frame ELSE suspended[j]]

\* the list of created ids is one array of the module, not of the handler
SwitchSharedCreated(k) ==
    /\ k \in DOMAIN suspended
    /\ pc # "handler"
    /\ suspended[k].pc # "done"
    /\ suspended' = Parked(k)
    /\ rid' = k
    /\ pc' = suspended[k].pc
    /\ req' = suspended[k].req
    /\ iterations' = suspended[k].iterations
    /\ mapped' = suspended[k].mapped
    /\ now' = suspended[k].now
    /\ targets' = suspended[k].targets
    /\ tier' = suspended[k].tier
    /\ teamMembers' = suspended[k].teamMembers
    /\ allIterationCapacities' = suspended[k].allIterationCapacities
    /\ calls' = suspended[k].calls
    /\ responses' = suspended[k].responses
    /\ idx' = suspended[k].idx
    /\ UNCHANGED <<created, deployment, bdVars>>

\* the running handler waits at its await (or has answered, or has not begun)
\* and the event loop runs the handler of request k
Switch(k) ==
    /\ k \in DOMAIN suspended
    /\ pc # "handler"
    /\ suspended[k].pc # "done"
    /\ suspended' = Parked(k)
    /\ rid' = k
    /\ pc' = suspended[k].pc
    /\ req' = suspended[k].req
    /\ iterations' = suspended[k].iterations
    /\ mapped' = suspended[k].mapped
    /\ now' = suspended[k].now
    /\ targets' = suspended[k].targets
    /\ tier' = suspended[k].tier
    /\ teamMembers' = suspended[k].teamMembers
    /\ allIterationCapacities' = suspended[k].allIterationCapacities
    /\ calls' = suspended[k].calls
    /\ responses' = suspended[k].responses
    /\ created' = suspended[k].created
    /\ idx' = suspended[k].idx
    /\ UNCHANGED <<deployment, bdVars>>

(***************************************************************************)
(* The inputs: requests and the replies of the work-tracking API.          *)
(***************************************************************************)
Headers == {<< >>, <<"B", "a", "s", "i", "c", " ", "x">>, BearerPrefix \o <<"t">>}
\* requested paths: "1" is the path of one iteration and the end of another's,
\* "P1" is the path of an iteration, "3" is no iteration's path
ReqPathPool == {<<"1">>, <<"P", "1">>, <<"3">>}
\* requests of the end-to-end specification
Requests ==
    [route : {"/compute-capacity"},
     authorization : Headers,
     org : {<< >>, <<"o">>},
     project : {<< >>, <<"p">>},
     team : {<< >>, <<"t">>},
     iterationPaths : {NotAnArray,
                       ArrayOf(<<(<<"P", "1">>), (<<"1">>), (<<"1">>)>>)}]
\* lists of four requested paths: the three paths of iterations after a path
\* of none, and before it
LongPathLists ==
    {<<(<<"3">>), (<<"P", "2">>), (<<"P", "1">>), (<<"1">>)>>,
     <<(<<"P", "2">>), (<<"P", "1">>), (<<"1">>), (<<"3">>)>>}
\* well-formed requests with every list of requested paths
SelectRequests ==
    [route : {"/compute-capacity"},
     authorization : {BearerPrefix \o <<"t">>},
     org : {<<"o">>},
     project : {<<"p">>},
     team : {<<"t">>},
     iterationPaths : {NotAnArray} \cup
                      {ArrayOf(ps) : ps \in SeqsUpTo(ReqPathPool, MaxReqPaths)} \cup
                      {ArrayOf(ps) : ps \in LongPathLists}]

Iteration(path, name, startDate, finishDate) ==
    [path |-> path, name |-> name, startDate |-> startDate, finishDate |-> finishDate]
\* iterations of the end-to-end specification: ten, two and no business days
\* (day 0 is a Thursday, day 4 a Monday)
HandlerIterations ==
    {Iteration(<<"P", "1">>, <<"1">>, DateOf(4, 0), DateOf(15, 0)),
     Iteration(<<"1">>, <<"1">>, DateOf(0, 0), DateOf(1, 0)),
     Iteration(<<"P", "2">>, <<"2">>, DateOf(2, 0), DateOf(3, 0))}
\* iterations of the selection specification: equal starts, a missing path,
\* a path that ends another, a missing date
SelectIterations ==
    {Iteration(<<"1">>, <<"1">>, DateOf(0, 0), DateOf(1, 0)),
     Iteration(<<"P", "1">>, <<"1">>, DateOf(0, 0), DateOf(4, 0)),
     Iteration(<< >>, <<"1">>, DateOf(2, 0), DateOf(5, 0)),
     Iteration(<<"P", "1">>, <<"1">>, DateOf(4, 0), DateOf(8, 0)),
     Iteration(<<"P", "2">>, <<"2">>, DateOf(6, 0), DateOf(7, 0)),
     Iteration(<<"P", "2">>, <<"2">>, DateOf(1, 0), NoDate)}
\* data.value of the iterations reply (an absent value is read as [])
HandlerIterationValues == SeqsUpTo(HandlerIterations, MaxIters)
SelectIterationValues == SeqsUpTo(SelectIterations, MaxIters)
\* the instants at which tier 2 may read the clock
Nows == {DateOf(0, 1), DateOf(4, 1)}

\* data.value of the member-list reply
MemberValues ==
    {NotAnArray} \cup {ArrayOf([i \in 1 .. k |-> "member"]) : k \in 0 .. MaxMembers}

Activity(capacityPerDay, daysOff) ==
    [capacityPerDay |-> capacityPerDay, daysOff |-> daysOff]
CapacityEntry(iterationPath, activities) ==
    [iterationPath |-> iterationPath, activities |-> activities]
\* capacity entries: two members, more days off than work days, another iteration,
\* no iteration path, activities that are no array
CapacityEntries ==
    {CapacityEntry(<<"P", "1">>, ArrayOf(<<Activity(6, 0), Activity(6, 1)>>)),
     CapacityEntry(<<"P", "1">>, ArrayOf(<<Activity(6, 12)>>)),
     CapacityEntry(<<"1">>, ArrayOf(<<Activity(1, 0)>>)),
     CapacityEntry(<< >>, ArrayOf(<<Activity(5, 0)>>)),
     CapacityEntry(<<"P", "1">>, NotAnArray)}

\* data.value of the capacities reply (an absent value is read as [])
CapacityValues == SeqsUpTo(CapacityEntries, MaxCaps)

(***************************************************************************)
(* The inputs of the other routes.                                         *)
(***************************************************************************)
\* no header, another scheme, the prefix in lower case, the prefix with
\* nothing after it, a token
RouteHeaders ==
    Headers \cup {<<"b", "e", "a", "r", "e", "r", " ", "t">>, BearerPrefix}

SprintPoints(present, n, n1, n2) == [present |-> present, n |-> n, n1 |-> n1, n2 |-> n2]
\* the keywords of buildPrompt, a word that is none of them, a keyword in
\* another case, and no action
AnalyzeActions ==
    {"", "sprintplan", "stories", "tasks", "testcases", "description", "criteria",
     "tests", "bug", "summary", "Bug"}
\* the optional fields of the body: none but a description, or all but it
AnalyzeOptions ==
    {[description |-> <<"D">>, sprintPoints |-> SprintPoints(FALSE, 0, 0, 0),
      stories |-> NotAnArray],
     [description |-> << >>, sprintPoints |-> SprintPoints(TRUE, 5, 12, 0),
      stories |-> ArrayOf(<< >>)]}
AnalyzeRequests ==
    {[route |-> "/analyze", authorization |-> h, title |-> t, type |-> <<"S">>,
      action |-> a, description |-> o.description, sprintPoints |-> o.sprintPoints,
      stories |-> o.stories] :
        h \in RouteHeaders, t \in {<< >>, <<"T">>}, a \in AnalyzeActions,
        o \in AnalyzeOptions}

\* the employees of a sprint-plan request: undefined, or a number
EmployeeCounts ==
    {[present |-> FALSE, n |-> 0]} \cup {[present |-> TRUE, n |-> e] : e \in 0 .. MaxEmployees}
\* requests to /analyze of the revision src/unnamed/part_002
PlanRequests ==
    {[route |-> "/analyze", authorization |-> h, title |-> t, type |-> <<"S">>,
      action |-> a, description |-> <<"D">>, employees |-> e, stories |-> st] :
        h \in RouteHeaders, t \in {<< >>, <<"T">>},
        a \in {"", "sprintplan", "tests", "summary"}, e \in EmployeeCounts,
        st \in {NotAnArray, ArrayOf(<< >>)}}

\* completions: plain text, JSON text, the empty text, a content that is no
\* string, no choices
TextCompletion(text) ==
    [choices |-> ArrayOf(<<[content |-> [isString |-> TRUE, text |-> text]]>>)]
Completions ==
    {TextCompletion(<<"A user can log in.">>),
     TextCompletion(<<"{", "\"tasks\": []", "}">>),
     TextCompletion(<< >>),
     [choices |-> ArrayOf(<<[content |-> [isString |-> FALSE, text |-> << >>]]>>)],
     [choices |-> NotAnArray]}

Item(id, title, storyPoints, steps, dependency) ==
    [isNull |-> FALSE, id |-> id, title |-> title, storyPoints |-> storyPoints,
     steps |-> steps, dependency |-> dependency,
     description |-> << >>, priority |-> 0, risk |-> ""]
NullItem ==
    [isNull |-> TRUE, id |-> 0, title |-> << >>, storyPoints |-> NoPoints,
     steps |-> NotAnArray, dependency |-> << >>,
     description |-> << >>, priority |-> 0, risk |-> ""]
\* the elements of a list of tasks, of test cases (one without steps), of
\* stories to create, of stories to update (one without changes, one without
\* id, one whose only change is storyPoints 0)
ItemPool(route) ==
    CASE route = "/create-tasks" ->
            {Item(0, <<"A">>, NoPoints, NotAnArray, << >>),
             Item(0, <<"B">>, NoPoints, NotAnArray, << >>),
             NullItem}
      [] route = "/create-testcases" ->
            {Item(0, <<"A">>, NoPoints, ArrayOf(<<"step">>), << >>),
             Item(0, <<"B">>, NoPoints, NotAnArray, << >>),
             NullItem}
      [] route = "/create-stories" ->
            {Item(0, <<"A">>, 3, NotAnArray, << >>),
             Item(0, <<"B">>, 5, NotAnArray, <<"A">>),
             NullItem}
      [] route = "/update-stories" ->
            {Item(1, <<"A">>, NoPoints, NotAnArray, << >>),
             Item(2, << >>, 8, NotAnArray, << >>),
             Item(3, << >>, NoPoints, NotAnArray, << >>),
             Item(0, <<"A">>, 5, NotAnArray, << >>),
             Item(4, << >>, 0, NotAnArray, << >>),
             NullItem}
\* org, project and parent id: all given, or one of them missing
Addressing ==
    {[org |-> <<"o">>, project |-> <<"p">>, parentId |-> 7],
     [org |-> << >>, project |-> <<"p">>, parentId |-> 7],
     [org |-> <<"o">>, project |-> << >>, parentId |-> 7],
     [org |-> <<"o">>, project |-> <<"p">>, parentId |-> 0]}
ItemLists(route) ==
    {NotAnArray} \cup {ArrayOf(s) : s \in SeqsUpTo(ItemPool(route), MaxItems)}
BatchRequests ==
    UNION {{[route |-> route, authorization |-> h, org |-> a.org,
             project |-> a.project, parentId |-> a.parentId, items |-> items] :
               h \in RouteHeaders, a \in Addressing, items \in ItemLists(route)} :
           route \in {"/create-tasks", "/create-testcases", "/create-stories",
                      "/update-stories"}}
\* response.data of a create or update call
WorkItems == {[id |-> 101], [id |-> 102]}

FeatureRequests ==
    [route : {"/feature-stories"}, authorization : RouteHeaders,
     org : {<<"o">>}, project : {<<"p">>}, featureId : {7}]
Relation(rel, id) == [rel |-> rel, url |-> <<"https:", "", "dev.azure.com", id>>]
\* featureResponse.data: no relations, none that is a child, children
FeatureReplies ==
    {[relations |-> NotAnArray],
     [relations |-> ArrayOf(<<Relation("System.LinkTypes.Hierarchy-Reverse", "5")>>)],
     [relations |-> ArrayOf(<<Relation("System.LinkTypes.Hierarchy-Forward", "11"),
                              Relation("System.LinkTypes.Hierarchy-Reverse", "5"),
                              Relation("System.LinkTypes.Hierarchy-Forward", "12")>>)]}
WorkItem(id, title, description, storyPoints, priority, risk) ==
    [id |-> id,
     fields |-> [title |-> title, description |-> description,
                 storyPoints |-> storyPoints, priority |-> priority, risk |-> risk]]
\* storiesResponse.data: a story with every field, a story with the title only
StoriesReplies ==
    {[value |-> <<WorkItem(11, <<"A">>, <<"D">>, 3, 1, "1 - High"),
                  WorkItem(12, <<"B">>, << >>, 0, 0, "")>>],
     [value |-> << >>]}

\* every request of every route
RouteRequests == AnalyzeRequests \cup BatchRequests \cup FeatureRequests \cup Requests

(***************************************************************************)
(* The inputs of the requests in flight together: two callers, t and u.    *)
(***************************************************************************)
ConcRequests ==
    {[route |-> "/create-tasks", authorization |-> BearerPrefix \o <<"t">>,
      org |-> <<"o">>, project |-> <<"p">>, parentId |-> 7,
      items |-> ArrayOf(<<Item(0, <<"A">>, NoPoints, NotAnArray, << >>),
                          Item(0, <<"B">>, NoPoints, NotAnArray, << >>)>>)],
     [route |-> "/create-stories", authorization |-> BearerPrefix \o <<"u">>,
      org |-> <<"o">>, project |-> <<"p">>, parentId |-> 7,
      items |-> ArrayOf(<<Item(0, <<"A">>, 3, NotAnArray, << >>)>>)],
     [route |-> "/analyze", authorization |-> BearerPrefix \o <<"t">>,
      title |-> <<"T">>, type |-> <<"S">>, action |-> "tests",
      description |-> <<"D">>, sprintPoints |-> SprintPoints(FALSE, 0, 0, 0),
      stories |-> NotAnArray],
     [route |-> "/create-testcases", authorization |-> BearerPrefix \o <<"u">>,
      org |-> <<"o">>, project |-> <<"p">>, parentId |-> 7,
      items |-> ArrayOf(<<Item(0, <<"A">>, NoPoints, ArrayOf(<<"step">>), << >>)>>)],
     [route |-> "/update-stories", authorization |-> BearerPrefix \o <<"t">>,
      org |-> <<"o">>, project |-> <<"p">>, parentId |-> 0,
      items |-> ArrayOf(<<Item(1, <<"A">>, NoPoints, NotAnArray, << >>)>>)],
     [route |-> "/feature-stories", authorization |-> BearerPrefix \o <<"u">>,
      org |-> <<"o">>, project |-> <<"p">>, featureId |-> 7],
     [route |-> "/compute-capacity",
      authorization |-> BearerPrefix \o BearerPrefix \o <<"u">>,
      org |-> <<"o">>, project |-> <<"p">>, team |-> <<"t">>,
      iterationPaths |-> NotAnArray]}
ConcIterationValues ==
    {<<Iteration(<<"P", "1">>, <<"1">>, DateOf(4, 0), DateOf(15, 0))>>}
ConcNows == {DateOf(4, 1)}
ConcMemberValues == {ArrayOf(<<"member", "member">>)}
ConcCapacityValues ==
    {<< >>, <<CapacityEntry(<<"P", "1">>, ArrayOf(<<Activity(6, 0)>>))>>}
ConcCompletions == {TextCompletion(<<"A user can log in.">>)}
ConcFeatureReplies ==
    {[relations |-> ArrayOf(<<Relation("System.LinkTypes.Hierarchy-Forward", "11")>>)]}
ConcStoriesReplies == {[value |-> <<WorkItem(11, <<"A">>, <<"D">>, 3, 1, "1 - High")>>]}

(***************************************************************************)
(* Specifications.                                                         *)
(***************************************************************************)
IdleRequest ==
    [route |-> "/compute-capacity", authorization |-> << >>, org |-> << >>,
     project |-> << >>, team |-> << >>, iterationPaths |-> NotAnArray]

HandlerStart(requests) ==
    /\ pc = "received"
    /\ req \in requests
    /\ iterations = << >>
    /\ mapped = << >>
    /\ now = NoDate
    /\ targets = << >>
    /\ tier = 0
    /\ teamMembers = << >>
    /\ allIterationCapacities = << >>
    /\ calls = << >>
    /\ responses = << >>
    /\ created = << >>
    /\ idx = 0

\* one request in flight, the generation service configured
SoleRequest ==
    /\ deployment = TRUE
    /\ suspended = << >>
    /\ rid = 1

BdIdle ==
    /\ bdStart = 0
    /\ bdEnd = 0
    /\ bdResult = 0
    /\ bdPc = "idle"

\* one /compute-capacity request, end to end
Init == HandlerStart(Requests) /\ SoleRequest /\ BdIdle

Next ==
    \/ AuthMiddleware
    \/ ComputeCapacityEntry
    \/ IterationsFail
    \/ pc = "awaitIterations" /\ \E value \in HandlerIterationValues, t \in Nows :
          IterationsOk(value, t)
    \/ MembersFail
    \/ pc = "awaitMembers" /\ \E value \in MemberValues : MembersOk(value)
    \/ CapacitiesFail
    \/ pc = "awaitCapacities" /\ \E value \in CapacityValues : CapacitiesOk(value)

Spec == Init /\ [][Next]_vars

\* the iteration selection over every list of requested paths and of iterations
InitSelect == HandlerStart(SelectRequests) /\ SoleRequest /\ BdIdle

NextSelect ==
    \/ AuthMiddleware
    \/ ComputeCapacityEntry
    \/ pc = "awaitIterations" /\ \E value \in SelectIterationValues, t \in Nows :
          IterationsOk(value, t)

SpecSelect == InitSelect /\ [][NextSelect]_vars

\* countBusinessDays over every pair of dates
InitDays ==
    /\ pc = "idle"
    /\ req = IdleRequest
    /\ iterations = << >>
    /\ mapped = << >>
    /\ now = NoDate
    /\ targets = << >>
    /\ tier = 0
    /\ teamMembers = << >>
    /\ allIterationCapacities = << >>
    /\ calls = << >>
    /\ responses = << >>
    /\ created = << >>
    /\ idx = 0
    /\ deployment = TRUE
    /\ suspended = << >>
    /\ rid = 1
    /\ bdStart \in Dates
    /\ bdEnd \in Dates
    /\ bdResult = 0
    /\ bdPc = "input"

NextDays == BdCall

SpecDays == InitDays /\ [][NextDays]_vars

\* one request of any route, end to end (a /compute-capacity request up to
\* its first call)
InitRoutes ==
    /\ HandlerStart(RouteRequests)
    /\ deployment \in BOOLEAN
    /\ suspended = << >>
    /\ rid = 1
    /\ BdIdle

NextRoutes ==
    \/ AuthMiddleware
    \/ AnalyzeEntry
    \/ GenerateFail
    \/ pc = "awaitGenerate" /\ \E completion \in Completions : GenerateOk(completion)
    \/ CreateTasksEntry
    \/ CreateTasksFail
    \/ pc = "awaitItem" /\ \E data \in WorkItems : CreateTasksOk(data)
    \/ CreateTestcasesEntry
    \/ CreateTestcasesFail
    \/ pc = "awaitItem" /\ \E data \in WorkItems : CreateTestcasesOk(data)
    \/ CreateStoriesEntry
    \/ CreateStoriesFail
    \/ pc = "awaitItem" /\ \E data \in WorkItems : CreateStoriesOk(data)
    \/ UpdateStoriesEntry
    \/ UpdateStoriesFail
    \/ pc = "awaitItem" /\ \E data \in WorkItems : UpdateStoriesOk(data)
    \/ FeatureStoriesEntry
    \/ FeatureFail
    \/ pc = "awaitFeature" /\ \E data \in FeatureReplies : FeatureOk(data)
    \/ StoriesFail
    \/ pc = "awaitStories" /\ \E data \in StoriesReplies : StoriesOk(data)
    \/ ComputeCapacityEntry
    \/ IterationsFail

SpecRoutes == InitRoutes /\ [][NextRoutes]_vars

\* the frame of a request that has arrived and whose handler has not begun
Arrived(r) ==
    [pc |-> "received", req |-> r, iterations |-> << >>, mapped |-> << >>,
     now |-> NoDate, targets |-> << >>, tier |-> 0, teamMembers |-> << >>,
     allIterationCapacities |-> << >>, calls |-> << >>, responses |-> << >>,
     created |-> << >>, idx |-> 0]

\* NumRequests requests in flight, interleaved at their awaits
InitConc ==
    /\ HandlerStart(ConcRequests)
    /\ deployment = TRUE
    /\ suspended \in [2 .. NumRequests -> {Arrived(r) : r \in ConcRequests}]
    /\ rid = 1
    /\ BdIdle

NextConc ==
    \/ AuthMiddleware
    \/ AnalyzeEntry
    \/ GenerateFail
    \/ pc = "awaitGenerate" /\ \E completion \in ConcCompletions : GenerateOk(completion)
    \/ CreateTasksEntry
    \/ CreateTasksFail
    \/ pc = "awaitItem" /\ \E data \in WorkItems : CreateTasksOk(data)
    \/ CreateStoriesEntry
    \/ CreateStoriesFail
    \/ pc = "awaitItem" /\ \E data \in WorkItems : CreateStoriesOk(data)
    \/ CreateTestcasesEntry
    \/ CreateTestcasesFail
    \/ pc = "awaitItem" /\ \E data \in WorkItems : CreateTestcasesOk(data)
    \/ UpdateStoriesEntry
    \/ UpdateStoriesFail
    \/ pc = "awaitItem" /\ \E data \in WorkItems : UpdateStoriesOk(data)
    \/ FeatureStoriesEntry
    \/ FeatureFail
    \/ pc = "awaitFeature" /\ \E data \in ConcFeatureReplies : FeatureOk(data)
    \/ StoriesFail
    \/ pc = "awaitStories" /\ \E data \in ConcStoriesReplies : StoriesOk(data)
    \/ ComputeCapacityEntry
    \/ IterationsFail
    \/ pc = "awaitIterations" /\ \E value \in ConcIterationValues, t \in ConcNows :
          IterationsOk(value, t)
    \/ MembersFail
    \/ pc = "awaitMembers" /\ \E value \in ConcMemberValues : MembersOk(value)
    \/ CapacitiesFail
    \/ pc = "awaitCapacities" /\ \E value \in ConcCapacityValues : CapacitiesOk(value)
    \/ \E k \in 1 .. NumRequests : Switch(k)

SpecConc == InitConc /\ [][NextConc]_vars

\* one request of any route, end to end, every outbound call returning or
\* failing in the end: the event loop runs a handler that can run, and a
\* call that is outstanding is settled
NextAnswer ==
    \/ NextRoutes
    \/ pc = "awaitIterations" /\ \E value \in ConcIterationValues, t \in ConcNows :
          IterationsOk(value, t)
    \/ MembersFail
    \/ pc = "awaitMembers" /\ \E value \in ConcMemberValues : MembersOk(value)
    \/ CapacitiesFail
    \/ pc = "awaitCapacities" /\ \E value \in ConcCapacityValues : CapacitiesOk(value)

SpecAnswer == InitRoutes /\ [][NextAnswer]_vars /\ WF_vars(NextAnswer)

\* one /analyze request of the revision src/unnamed/part_002, end to end
InitPlan == HandlerStart(PlanRequests) /\ SoleRequest /\ BdIdle

NextPlan ==
    \/ AuthMiddleware
    \/ AnalyzeEmployeesEntry
    \/ GenerateFail
    \/ pc = "awaitGenerate" /\ \E completion \in ConcCompletions : GenerateOk(completion)

SpecPlan == InitPlan /\ [][NextPlan]_vars

(***************************************************************************)
(* The calendar and the selection as the specification words them.         *)
(***************************************************************************)
\* 1970-01-01, day 0, was a Thursday
WeekdayName(d) == <<"Thu", "Fri", "Sat", "Sun", "Mon", "Tue", "Wed">>[(d % 7) + 1]
IsMonToFri(d) == WeekdayName(d) \in {"Mon", "Tue", "Wed", "Thu", "Fri"}
\* the calendar dates from the date of start to the date of end that are weekdays
MonToFriDates(start, end) == {d \in DayOf(start) .. DayOf(end) : IsMonToFri(d)}
\* a Date that is a calendar date: midnight
IsCalendarDate(t) == TimeOfDay(t) = 0

\* C1: for calendar dates start <= end, countBusinessDays returns the number of
\* Monday-to-Friday dates of the inclusive range, both endpoints included.
C1_BusinessDaysOfRange ==
    (bdPc = "done" /\ IsCalendarDate(bdStart) /\ IsCalendarDate(bdEnd)
        /\ bdStart <= bdEnd)
    => bdResult = Cardinality(MonToFriDates(bdStart, bdEnd))

\* a 7-day range starting on a Monday (day 4) yields 5
C1_Witness ==
    /\ bdPc = "done"
    /\ bdStart = DateOf(4, 0)
    /\ bdEnd = DateOf(10, 0)
    /\ WeekdayName(DayOf(bdStart)) = "Mon"
    /\ bdResult = 5

\* C2: for start > end countBusinessDays returns 0; no result is negative.
C2_ZeroWhenStartAfterEnd ==
    bdPc = "done" => (bdResult >= 0 /\ (bdStart > bdEnd => bdResult = 0))

\* a Tuesday as start and the Monday before it as end
C2_Witness ==
    /\ bdPc = "done"
    /\ bdStart = DateOf(5, 0)
    /\ bdEnd = DateOf(4, 0)
    /\ bdResult = 0

\* an iteration of the reply as the selection sees it
SpecLabel(it) == IF it.path = << >> THEN it.name ELSE it.path
SpecDated(it) == it.startDate # NoDate /\ it.finishDate # NoDate
SpecTarget(it) ==
    [path |-> SpecLabel(it), start |-> it.startDate, finish |-> it.finishDate]
\* p is s or a proper end of s
IsEndOf(p, s) == \E k \in 0 .. Len(s) : SubSeq(s, k + 1, Len(s)) = p
\* the requested path p resolves to the dated iteration it: exact or suffix match
SpecResolvesTo(p, it) == SpecDated(it) /\ IsEndOf(p, SpecLabel(it))
SpecResolves(p) == \E i \in DOMAIN iterations : SpecResolvesTo(p, iterations[i])
\* the requested paths, none when the request gives no list
RequestedPaths == IF req.iterationPaths.isArray THEN req.iterationPaths.items ELSE << >>
\* how many of the requested paths resolve
NumResolved == Cardinality({k \in DOMAIN RequestedPaths : SpecResolves(RequestedPaths[k])})
\* how many targets tier 1 produces: it reads the first three of three or more paths
Tier1Count ==
    IF Len(RequestedPaths) < 3 THEN 0
    ELSE Cardinality({k \in 1 .. 3 : SpecResolves(RequestedPaths[k])})
\* ascending by start date, by repeatedly taking the earliest start (the first of equals)
RECURSIVE EarliestFirst(_)
EarliestFirst(s) ==
    IF s = << >> THEN << >>
    ELSE LET i == CHOOSE i \in DOMAIN s :
                    \A j \in DOMAIN s :
                        s[i].start < s[j].start \/ (s[i].start = s[j].start /\ i <= j)
         IN  <<s[i]>> \o EarliestFirst(SubSeq(s, 1, i - 1) \o SubSeq(s, i + 1, Len(s)))
\* the dated iterations of the reply in ascending start-date order
DatedByStart ==
    EarliestFirst([k \in DOMAIN SelectSeq(iterations, SpecDated) |->
                      SpecTarget(SelectSeq(iterations, SpecDated)[k])])
\* those of them whose finish date is on or after the current date
FinishOnOrAfterNow(m) == m.finish >= now
UpcomingByStart == SelectSeq(DatedByStart, FinishOnOrAfterNow)
FirstThree(s) == [k \in 1 .. (IF Len(s) > 3 THEN 3 ELSE Len(s)) |-> s[k]]
\* the selection has run for the request
Selected == pc = "awaitMembers"

\* C3: three requested paths that all resolve select exactly the three iterations
\* they resolve to, in the order requested.
C3_Tier1InRequestedOrder ==
    (Selected /\ Len(RequestedPaths) = 3
        /\ \A k \in 1 .. 3 : SpecResolves(RequestedPaths[k]))
    => /\ Len(targets) = 3
       /\ \A k \in 1 .. 3 :
            \E i \in DOMAIN iterations :
                /\ SpecResolvesTo(RequestedPaths[k], iterations[i])
                /\ targets[k] = SpecTarget(iterations[i])

\* three paths resolve to two iterations, the later one requested first; a third,
\* dated iteration of the reply is not selected
C3_Witness ==
    /\ Selected
    /\ Len(RequestedPaths) = 3
    /\ \A k \in 1 .. 3 : SpecResolves(RequestedPaths[k])
    /\ Len(targets) = 3
    /\ targets[1] # targets[2]
    /\ Len(DatedByStart) = 3
    /\ \E k \in 1 .. 3 : \A j \in 1 .. 3 : DatedByStart[k] # targets[j]
    /\ targets[1].start > targets[2].start

C5_TierPrecedence ==
    Selected =>
        /\ (tier = 3) <=> (Tier1Count < 3 /\ Len(UpcomingByStart) < 3)
        /\ tier = 3 => targets = FirstThree(DatedByStart)
        /\ Tier1Count = 3 =>
              /\ tier = 1
              /\ \A k \in 1 .. 3 :
                    \E i \in DOMAIN iterations :
                        /\ SpecResolvesTo(RequestedPaths[k], iterations[i])
                        /\ targets[k] = SpecTarget(iterations[i])
        /\ (Tier1Count < 3 /\ Len(UpcomingByStart) >= 3) =>
              (tier = 2 /\ targets = FirstThree(UpcomingByStart))

\* one upcoming iteration only: tier 3 selects three, two of them over
C5_Witness ==
    /\ Selected
    /\ tier = 3
    /\ Len(targets) = 3
    /\ Len(UpcomingByStart) = 1
    /\ targets[1].finish < now
    /\ targets[2].finish < now

(***************************************************************************)
(* The capacities as the specification words them.                         *)
(***************************************************************************)
\* the request was answered with the success response
Answered200 == pc = "done" /\ Len(responses) = 1 /\ responses[1].status = 200
\* the capacity reported in slot i (1 is n, 2 is n1, 3 is n2)
Slot(i) ==
    LET c == responses[1].body.capacities
    IN  CASE i = 1 -> c.n [] i = 2 -> c.n1 [] i = 3 -> c.n2
\* the outcome of the call to api, "none" when it was not issued
OutcomeOf(api) ==
    IF \E k \in DOMAIN calls : calls[k].api = api
    THEN calls[CHOOSE k \in DOMAIN calls : calls[k].api = api].outcome
    ELSE "none"
\* the activity records of the capacity entries whose iterationPath is that of it,
\* as <<entry, record>> index pairs
RecordsOf(it) ==
    UNION {{<<i, j>> : j \in DOMAIN allIterationCapacities[i].activities.items} :
            i \in {i \in DOMAIN allIterationCapacities :
                     /\ allIterationCapacities[i].iterationPath # << >>
                     /\ allIterationCapacities[i].iterationPath = it.path}}
RecordAt(x) == allIterationCapacities[x[1]].activities.items[x[2]]
RECURSIVE SumOfRecords(_, _)
SumOfRecords(S, workDays) ==
    IF S = {} THEN 0
    ELSE LET x == CHOOSE x \in S : TRUE
             net == RecordAt(x).capacityPerDay * (workDays - RecordAt(x).daysOff)
         IN  (IF net > 0 THEN net ELSE 0) + SumOfRecords(S \ {x}, workDays)
\* totalWorkDays of a selected iteration
WorkDays(it) == countBusinessDays(it.start, it.finish)
\* the detailed sum of a selected iteration
DetailedSum(it) == SumOfRecords(RecordsOf(it), WorkDays(it))
\* the number of fetched members, 1 when there is none or the fetch failed
FetchedTeamSize ==
    IF OutcomeOf("members") = "ok" /\ Len(teamMembers) > 0 THEN Len(teamMembers) ELSE 1
\* the capacity of a selected iteration for a team of the given size
CapacityFor(it, size) ==
    LET sum == DetailedSum(it)
    IN  IF sum > 0 THEN sum ELSE WorkDays(it) * size

\* C6: a success response holds exactly the capacities n, n1 and n2; a slot without
\* a selected iteration is 0 and the other slots hold their iteration's capacity.
C6_ThreeSlotsMissingAreZero ==
    Answered200 =>
        /\ DOMAIN responses[1].body.capacities = {"n", "n1", "n2"}
        /\ \A i \in 1 .. 3 :
              Slot(i) = IF i > Len(targets) THEN 0
                        ELSE CapacityFor(targets[i], FetchedTeamSize)

\* one iteration selected: n is its capacity, n1 and n2 are 0
C6_Witness ==
    /\ Answered200
    /\ Len(targets) = 1
    /\ Slot(1) > 0
    /\ Slot(2) = 0
    /\ Slot(3) = 0

\* C7: a positive detailed sum of a selected iteration is reported as it is.
C7_DetailedSumVerbatim ==
    Answered200 =>
        \A i \in 1 .. Len(targets) :
            LET sum == DetailedSum(targets[i])
            IN  sum > 0 => Slot(i) = sum

\* ten work days, records of 6 a day with 0 and 1 days off (60 + 54) and a record
\* of another iteration: 114, not the 10 * 2 of the team-size formula
C7_Witness ==
    /\ Answered200
    /\ Len(targets) >= 1
    /\ WorkDays(targets[1]) = 10
    /\ Len(teamMembers) = 2
    /\ Len(allIterationCapacities) = 2
    /\ \E i \in 1 .. 2 : allIterationCapacities[i].iterationPath = <<"1">>
    /\ DetailedSum(targets[1]) = 114
    /\ Slot(1) = 114

C9_MemberFailureNotFatal ==
    OutcomeOf("members") = "failed" =>
        /\ OutcomeOf("capacities") # "none"
        /\ teamMembers = << >>
        /\ OutcomeOf("capacities") = "pending" => (pc = "awaitCapacities" /\ responses = << >>)
        /\ OutcomeOf("capacities") = "ok" =>
              /\ Answered200
              /\ \A i \in 1 .. Len(targets) : Slot(i) = CapacityFor(targets[i], 1)

\* the member list failed, the ten-day iteration reports 10 * 1
C9_Witness ==
    /\ OutcomeOf("members") = "failed"
    /\ Answered200
    /\ Len(targets) >= 1
    /\ WorkDays(targets[1]) = 10
    /\ DetailedSum(targets[1]) = 0
    /\ Slot(1) = 10

\* C10: a failed iterations or capacities call is answered 500 with the error body
\* alone, and after a failed iterations call no further call is issued.
C10_FailureIs500NoPartialResult ==
    /\ (OutcomeOf("iterations") = "failed" \/ OutcomeOf("capacities") = "failed")
          => /\ pc = "done"
             /\ Len(responses) = 1
             /\ responses[1].status = 500
             /\ DOMAIN responses[1].body = {"error"}
             /\ responses[1].body.error = "Failed to compute capacities"
    /\ OutcomeOf("iterations") = "failed"
          => (OutcomeOf("members") = "none" /\ OutcomeOf("capacities") = "none"
              /\ Len(calls) = 1)

\* the capacities call fails after three iterations were selected
C10_Witness ==
    /\ OutcomeOf("capacities") = "failed"
    /\ Len(targets) = 3
    /\ Len(calls) = 3
    /\ responses = <<[status |-> 500, body |-> [error |-> "Failed to compute capacities"]]>>

(***************************************************************************)
(* Authentication and validation as the specification words them.          *)
(***************************************************************************)
\* the header starts with the seven characters "Bearer "
HasBearerPrefix(h) ==
    /\ Len(h) >= 7
    /\ <<h[1], h[2], h[3], h[4], h[5], h[6], h[7]>> = <<"B", "e", "a", "r", "e", "r", " ">>
\* the text of the header after "Bearer "
AfterBearer(h) == [i \in 1 .. Len(h) - 7 |-> h[i + 7]]
AllRoutes ==
    {"/feature-stories", "/analyze", "/create-tasks", "/create-testcases",
     "/create-stories", "/update-stories", "/compute-capacity"}

\* C11: on every route a request whose Authorization header is absent or does
\* not start with "Bearer " never gets past the middleware: it issues no
\* outbound call and its only answer is 401 "Unauthorized"; a request whose
\* header has the prefix is never answered 401, whatever follows the prefix,
\* and comes to its handler without a response sent.
C11_UnauthorizedBeforeHandler ==
    /\ req.route \in AllRoutes
    /\ ~HasBearerPrefix(req.authorization) =>
          /\ pc \in {"received", "done"}
          /\ calls = << >>
          /\ pc = "received" => responses = << >>
          /\ pc = "done" =>
                responses = <<[status |-> 401, body |-> [error |-> "Unauthorized"]]>>
    /\ HasBearerPrefix(req.authorization) =>
          /\ \A k \in DOMAIN responses : responses[k].status # 401
          /\ pc = "handler" => responses = << >> /\ calls = << >>
\* a well-formed /create-tasks request whose header spells the scheme in lower
\* case was answered 401 and nothing else happened
C11_Witness ==
    /\ req.route = "/create-tasks"
    /\ req.authorization = <<"b", "e", "a", "r", "e", "r", " ", "t">>
    /\ ~BatchInvalid(req)
    /\ Len(req.items.items) = 2
    /\ pc = "done"
    /\ responses = <<[status |-> 401, body |-> [error |-> "Unauthorized"]]>>
    /\ calls = << >>

(***************************************************************************)
(* The requests in flight as the specification words them.                 *)
(***************************************************************************)
\* the requests in flight and the state of the handler of each
InFlight == DOMAIN suspended \cup {rid}
FrameOf(k) == IF k = rid THEN Frame ELSE suspended[k]
\* the outbound calls of request k to the work-tracking API
WorkTrackingCalls(k) ==
    {i \in DOMAIN FrameOf(k).calls : FrameOf(k).calls[i].api # "generation"}

\* C12: every call to the work-tracking API issued for a request in flight
\* carries as token exactly the text after "Bearer " of the Authorization
\* header of that request, whichever other requests are in flight and
\* however their handlers are interleaved.
C12_CallsCarryOwnToken ==
    \A k \in InFlight : \A i \in WorkTrackingCalls(k) :
        /\ HasBearerPrefix(FrameOf(k).req.authorization)
        /\ FrameOf(k).calls[i].token = AfterBearer(FrameOf(k).req.authorization)
\* two requests of different callers wait each for a call of its own, the
\* second one begun while the first one waited
C12_Witness ==
    /\ rid = 2
    /\ pc = "awaitItem"
    /\ suspended[1].pc = "awaitItem"
    /\ Len(suspended[1].calls) = 2
    /\ AfterBearer(req.authorization) # AfterBearer(suspended[1].req.authorization)
    /\ calls[1].token = <<"u">>
    /\ suspended[1].calls[2].token = <<"t">>

\* the request has the scheme the middleware asks for
Authenticated == HasBearerPrefix(req.authorization)
\* the body of the request lacks what its route requires
SpecBadInput ==
    CASE req.route = "/analyze" -> req.title = << >> \/ req.action = ""
      [] req.route \in {"/create-tasks", "/create-testcases", "/create-stories"} ->
            \/ req.org = << >>
            \/ req.project = << >>
            \/ req.parentId = 0
            \/ ~req.items.isArray
      [] req.route = "/update-stories" ->
            req.org = << >> \/ req.project = << >> \/ ~req.items.isArray
      [] req.route = "/compute-capacity" ->
            req.org = << >> \/ req.project = << >> \/ req.team = << >>
      [] OTHER -> FALSE
\* the only response is an error of the given status, a body with error alone
AnsweredError(status) ==
    /\ Len(responses) = 1
    /\ responses[1].status = status
    /\ DOMAIN responses[1].body = {"error"}

\* C13: an authenticated request whose body lacks a required field (title or
\* action; org, project, the parent id, an array of items; org, project or
\* team) issues no outbound call at any time and is answered 400 with an
\* error body by its handler's first step.
C13_ValidationBeforeCalls ==
    (Authenticated /\ SpecBadInput) =>
        /\ calls = << >>
        /\ pc \in {"received", "handler", "done"}
        /\ pc = "done" => AnsweredError(400)
\* a /create-stories request whose stories are no array was answered 400
C13_Witness ==
    /\ Authenticated
    /\ req.route = "/create-stories"
    /\ req.org # << >> /\ req.project # << >> /\ req.parentId # 0
    /\ ~req.items.isArray
    /\ pc = "done"
    /\ responses = <<[status |-> 400, body |-> [error |-> "Invalid payload"]]>>
    /\ calls = << >>

(***************************************************************************)
(* /analyze and the batch routes as the specification words them.          *)
(***************************************************************************)
\* an authenticated /analyze request with a title and an action
ValidAnalyze == req.route = "/analyze" /\ Authenticated /\ ~SpecBadInput
\* the generation calls of the request
GenerationCalls == {i \in DOMAIN calls : calls[i].api = "generation"}
\* the generation service returned a text: the content of its first choice
ReplyHasText(completion) ==
    /\ completion.choices.isArray
    /\ completion.choices.items # << >>
    /\ completion.choices.items[1].content.isString
ReplyText(completion) == completion.choices.items[1].content.text

\* C14 as stated: a valid request that was answered made exactly one
\* generation call, and the text the service returned is the output.
C14_AsStated ==
    (ValidAnalyze /\ pc = "done") =>
        /\ Cardinality(GenerationCalls) = 1
        /\ (calls[1].outcome = "ok" /\ ReplyHasText(calls[1].reply)) =>
              responses = <<[status |-> 200,
                             body |-> [output |-> ReplyText(calls[1].reply)]]>>

\* C14: for a valid request, with a deployment name configured, exactly one
\* generation call is made, with the prompt buildPrompt selects, and when it
\* resolves the response is { output }, output being the text of the reply's
\* first choice as it came, or "" when that choice holds no text; with no
\* deployment name configured no call is made and the answer is 500.
C14_AnalyzeRelaysOutput ==
    ValidAnalyze =>
        /\ (deployment /\ pc \in {"awaitGenerate", "done"}) =>
              /\ calls # << >>
              /\ GenerationCalls = {1}
              /\ Len(calls) = 1
              /\ calls[1].body.prompt =
                    buildPrompt(req.title, req.description, req.type, req.action,
                                req.sprintPoints, req.stories)
        /\ (deployment /\ pc = "done" /\ calls[1].outcome = "ok") =>
              responses = <<[status |-> 200,
                             body |-> [output |->
                                 IF ReplyHasText(calls[1].reply)
                                 THEN ReplyText(calls[1].reply) ELSE << >>]]>>
        /\ (~deployment /\ pc = "done") =>
              /\ calls = << >>
              /\ responses = <<[status |-> 500, body |-> [error |-> "AI failure"]]>>
\* the request { title, action: "description", type } was answered with the
\* plain sentence the service returned
C14_Witness ==
    /\ ValidAnalyze
    /\ req.action = "description"
    /\ pc = "done"
    /\ Len(calls) = 1
    /\ calls[1].outcome = "ok"
    /\ ReplyHasText(calls[1].reply)
    /\ ReplyText(calls[1].reply) = <<"A user can log in.">>
    /\ responses = <<[status |-> 200, body |-> [output |-> <<"A user can log in.">>]]>>

SpecCreateRoutes == {"/create-tasks", "/create-testcases", "/create-stories"}
SpecBatchRoutes == SpecCreateRoutes \cup {"/update-stories"}
\* an authenticated request to a batch route that passes the validation
ValidBatch == req.route \in SpecBatchRoutes /\ Authenticated /\ ~SpecBadInput
\* the list of items of the request
ItemsOf == req.items.items
\* the element is an item of the route's type: an object, and for a test case
\* one with its array of steps
IsItem(x) == ~x.isNull /\ (req.route = "/create-testcases" => x.steps.isArray)
\* the URL a create route posts to, and the name of its list in the response
CreateUrl ==
    CASE req.route = "/create-tasks" -> "workitems/$Task"
      [] req.route = "/create-testcases" -> "workitems/$Test%20Case"
      [] req.route = "/create-stories" -> "workitems/$User%20Story"
ListIn(body) ==
    CASE req.route = "/create-tasks" -> body.createdTasks
      [] req.route = "/create-testcases" -> body.createdTestCases
      [] req.route = "/create-stories" -> body.createdStories
      [] req.route = "/update-stories" -> body.updatedIds
NoCallFailed == \A i \in DOMAIN calls : calls[i].outcome # "failed"
\* the response is the success response of a batch route
AnsweredSuccess ==
    /\ Len(responses) = 1
    /\ responses[1].status = 200
    /\ Cardinality(DOMAIN responses[1].body) = 2
    /\ responses[1].body.success

\* C15: a valid request to a create route with a list of N items, while no
\* create call fails: the calls issued so far are create calls for the items
\* 1, 2, ... in input order, one each; once answered there are exactly N of
\* them and the response is success with the N returned ids in that order.
C15_BatchCreatesInOrder ==
    (/\ ValidBatch
     /\ req.route \in SpecCreateRoutes
     /\ \A i \in DOMAIN ItemsOf : IsItem(ItemsOf[i])
     /\ NoCallFailed) =>
        /\ Len(calls) <= Len(ItemsOf)
        /\ \A i \in DOMAIN calls :
              /\ calls[i].api = CreateUrl
              /\ calls[i].body.item = i
              /\ calls[i].body.value = ItemsOf[i]
        /\ pc = "done" =>
              /\ Len(calls) = Len(ItemsOf)
              /\ AnsweredSuccess
              /\ ListIn(responses[1].body) =
                    [i \in 1 .. Len(ItemsOf) |-> calls[i].reply.id]
\* two tasks, the calls returned the ids 101 and 102, createdTasks is [101, 102]
C15_Witness ==
    /\ ValidBatch
    /\ req.route = "/create-tasks"
    /\ Len(ItemsOf) = 2
    /\ ItemsOf[1].title = <<"A">> /\ ItemsOf[2].title = <<"B">>
    /\ pc = "done"
    /\ Len(calls) = 2
    /\ calls[1].reply = [id |-> 101] /\ calls[2].reply = [id |-> 102]
    /\ responses = <<[status |-> 200,
                      body |-> [success |-> TRUE, createdTasks |-> <<101, 102>>]]>>

\* the fixed error message of each batch route
FixedMessage ==
    CASE req.route = "/create-tasks" -> "Task creation failed"
      [] req.route = "/create-testcases" -> "Test case creation failed"
      [] req.route = "/create-stories" -> "Story creation failed"
      [] req.route = "/update-stories" -> "Update failed"
\* the method and URL of the route's create or update call
IsItemCall(c) ==
    /\ c.method \in {"POST", "PATCH"}
    /\ c.api = IF req.route = "/update-stories" THEN "workitems/${story.id}" ELSE CreateUrl
SomeCallFailed == \E i \in DOMAIN calls : calls[i].outcome = "failed"

\* C16: in a batch route, once an outbound call has failed, it is the last
\* call of the request for good: every earlier call succeeded and none of
\* them is undone (every call is a create or update call of the route, none
\* a delete), no item has two calls (no retry), the calls went through the
\* items in input order and none follows the failed one, and the response is
\* 500 with the route's fixed message as its only content.
C16_BatchFailureStops ==
    (ValidBatch /\ SomeCallFailed) =>
        /\ calls[Len(calls)].outcome = "failed"
        /\ \A i \in 1 .. Len(calls) - 1 : calls[i].outcome = "ok"
        /\ \A i \in DOMAIN calls : IsItemCall(calls[i])
        /\ \A i, j \in DOMAIN calls : i < j => calls[i].body.item < calls[j].body.item
        /\ pc = "done"
        /\ AnsweredError(500)
        /\ responses[1].body = [error |-> FixedMessage]
\* two tasks: the first was created with id 101, the call for the second
\* failed, the answer is 500 "Task creation failed"
C16_Witness ==
    /\ ValidBatch
    /\ req.route = "/create-tasks"
    /\ Len(ItemsOf) = 2
    /\ Len(calls) = 2
    /\ calls[1].outcome = "ok" /\ calls[1].reply = [id |-> 101]
    /\ calls[2].outcome = "failed"
    /\ pc = "done"
    /\ responses = <<[status |-> 500, body |-> [error |-> "Task creation failed"]]>>

\* the actions buildPrompt has a template for
Keywords ==
    {"sprintplan", "stories", "tasks", "testcases", "description", "criteria",
     "tests", "bug"}

\* C17: for a valid /analyze request whose action is none of the keywords,
\* buildPrompt returns exactly the title; the request is never answered 400,
\* every generation call made for it carries the bare title as its prompt,
\* and with the service configured that call is made.
C17_UnknownActionBareTitle ==
    (ValidAnalyze /\ req.action \notin Keywords) =>
        /\ buildPrompt(req.title, req.description, req.type, req.action,
                       req.sprintPoints, req.stories) = req.title
        /\ \A i \in DOMAIN calls :
              calls[i].api = "generation" /\ calls[i].body = [prompt |-> req.title]
        /\ \A i \in DOMAIN responses : responses[i].status # 400
        /\ (deployment /\ pc \in {"awaitGenerate", "done"}) => Len(calls) = 1
        /\ (pc = "done" /\ calls # << >> /\ calls[1].outcome = "ok") =>
              responses[1].status = 200
\* the action "summary": the service was sent the title T and its text answered
C17_Witness ==
    /\ ValidAnalyze
    /\ req.action = "summary"
    /\ req.title = <<"T">>
    /\ pc = "done"
    /\ Len(calls) = 1
    /\ calls[1].body = [prompt |-> <<"T">>]
    /\ calls[1].outcome = "ok"
    /\ responses[1].status = 200

\* the list of a batch request holds an element that is not an item of the
\* route: a null, or a test case without its array of steps
SpecBadShape ==
    /\ req.route \in SpecBatchRoutes
    /\ req.items.isArray
    /\ \E i \in DOMAIN ItemsOf : ~IsItem(ItemsOf[i])

\* C18 as stated, with the generation service configured: an authenticated
\* request whose body lacks a required field or has an element of the wrong
\* shape is answered 400 (unless one of its calls failed first), and a
\* request is answered 500 only if one of its outbound calls has failed.
C18_AsStated ==
    (deployment /\ Authenticated /\ pc = "done") =>
        /\ ((SpecBadInput \/ SpecBadShape) /\ ~SomeCallFailed) =>
              responses[1].status = 400
        /\ responses[1].status = 500 => SomeCallFailed

(***************************************************************************)
(* More than three requested paths.                                        *)
(***************************************************************************)
\* the requested paths that resolve, in requested order
ResolvedPaths == SelectSeq(RequestedPaths, SpecResolves)

\* C19 as stated: with more than three requested paths of which at least
\* three resolve, tier 1 is not abandoned and the targets are the iterations
\* of the first three resolved paths, in requested order.
C19_AsStated ==
    (Selected /\ Len(RequestedPaths) > 3 /\ Len(ResolvedPaths) >= 3) =>
        /\ tier = 1
        /\ Len(targets) = 3
        /\ \A k \in 1 .. 3 :
              \E i \in DOMAIN iterations :
                  /\ SpecResolvesTo(ResolvedPaths[k], iterations[i])
                  /\ targets[k] = SpecTarget(iterations[i])

(***************************************************************************)
(* The response a request is owed, from the request and from the replies   *)
(* to its own calls alone.                                                 *)
(***************************************************************************)
Owed(status, body) == <<[status |-> status, body |-> body]>>
\* a call of the frame failed
FailedIn(f) == \E i \in DOMAIN f.calls : f.calls[i].outcome = "failed"
\* the ids a batch request is owed: what its own create calls returned, or
\* for /update-stories the ids of the stories its own calls updated
OwnIds(f) ==
    [i \in DOMAIN f.calls |->
        IF f.req.route = "/update-stories"
        THEN f.req.items.items[f.calls[i].body.item].id
        ELSE f.calls[i].reply.id]
OwedBatch(f) ==
    IF FailedIn(f)
    THEN Owed(500, [error |-> Batch(f.req.route).failure])
    ELSE Owed(200, SuccessBody(f.req.route, OwnIds(f)))
OwedAnalyze(f) ==
    IF FailedIn(f)
    THEN Owed(500, [error |-> "AI failure"])
    ELSE Owed(200, [output |-> Output(f.calls[1].reply)])
OwedFeature(f) ==
    IF FailedIn(f)
    THEN Owed(500, [error |-> "Failed to fetch feature stories"])
    ELSE IF Len(f.calls) = 1
    THEN Owed(200, [stories |-> << >>])
    ELSE Owed(200, [stories |-> [k \in DOMAIN f.calls[2].reply.value |->
                                    MapStory(f.calls[2].reply.value[k])]])
\* the capacities from the three replies, the clock read at t
OwedCapacity(f, t) ==
    IF f.calls[1].outcome = "failed" \/ f.calls[3].outcome = "failed"
    THEN Owed(500, [error |-> "Failed to compute capacities"])
    ELSE LET ts == SelectTargets(f.req.iterationPaths, Mapped(f.calls[1].reply), t).targets
             members == IF f.calls[2].outcome = "ok" /\ f.calls[2].reply.isArray
                        THEN f.calls[2].reply.items ELSE << >>
         IN  Owed(200, CapacityBody(CapacitiesLoop(ts, teamSize(members),
                                                   f.calls[3].reply), ts))
IsOwed(f) ==
    CASE f.req.route \in SpecBatchRoutes -> f.responses = OwedBatch(f)
      [] f.req.route = "/analyze" -> f.responses = OwedAnalyze(f)
      [] f.req.route = "/feature-stories" -> f.responses = OwedFeature(f)
      [] f.req.route = "/compute-capacity" ->
            \E t \in ConcNows : f.responses = OwedCapacity(f, t)

\* C20: with several requests in flight, interleaved in any way at their
\* awaits, every answered request has exactly the response that its own
\* request and the replies to its own calls determine; the id list of a
\* batch route holds the ids returned to that request's calls, in order.
C20_RequestIsolation ==
    \A k \in InFlight : FrameOf(k).pc = "done" => IsOwed(FrameOf(k))
\* request 1 (two tasks) and request 2 (one story) are both answered, request
\* 2 having run while request 1 waited; each got the ids of its own calls
C20_Witness ==
    /\ rid = 1
    /\ pc = "done"
    /\ req.route = "/create-tasks"
    /\ suspended[2].pc = "done"
    /\ suspended[2].req.route = "/create-stories"
    /\ suspended[2].calls[1].reply = [id |-> 102]
    /\ suspended[2].responses =
          <<[status |-> 200, body |-> [success |-> TRUE, createdStories |-> <<102>>]]>>
    /\ calls[1].reply = [id |-> 101] /\ calls[2].outcome = "ok"
    /\ calls[2].reply = [id |-> 101]
    /\ responses =
          <<[status |-> 200, body |-> [success |-> TRUE, createdTasks |-> <<101, 101>>]]>>

(***************************************************************************)
(* The order of the outbound calls of one request.                         *)
(***************************************************************************)
\* the positions at which a handler waits for an outbound call
AwaitPositions ==
    {"awaitGenerate", "awaitItem", "awaitFeature", "awaitStories",
     "awaitIterations", "awaitMembers", "awaitCapacities"}
\* the calls of the frame that have not returned
Outstanding(f) == {i \in DOMAIN f.calls : f.calls[i].outcome = "pending"}

\* C21: for every request in flight, however the handlers are interleaved, at
\* most one of its outbound calls is outstanding, and it is the call issued
\* last, the handler waiting for it; in a batch route every call before the
\* last has returned successfully and the calls go through the items of the
\* list in input order, one call per item.
C21_SequentialCalls ==
    \A k \in InFlight :
        LET f == FrameOf(k)
        IN  /\ Cardinality(Outstanding(f)) <= 1
            /\ Outstanding(f) \subseteq {Len(f.calls)}
            /\ (Outstanding(f) # {}) <=> (f.pc \in AwaitPositions)
            /\ f.req.route \in SpecBatchRoutes =>
                  /\ \A i \in 1 .. Len(f.calls) - 1 : f.calls[i].outcome = "ok"
                  /\ \A i, j \in DOMAIN f.calls :
                        i < j => f.calls[i].body.item < f.calls[j].body.item
\* the call for the second task is outstanding after the first returned 101,
\* while another request waits for the one call it has issued
C21_Witness ==
    /\ rid = 1
    /\ req.route = "/create-tasks"
    /\ pc = "awaitItem"
    /\ Len(calls) = 2
    /\ calls[1].outcome = "ok" /\ calls[1].reply = [id |-> 101]
    /\ calls[1].body.item = 1 /\ calls[2].body.item = 2
    /\ calls[2].outcome = "pending"
    /\ suspended[2].pc = "awaitIterations"
    /\ Outstanding(suspended[2]) = {1}

(***************************************************************************)
(* /update-stories as the specification words it.                          *)
(***************************************************************************)
\* the fields of a story the request defines
HasTitle(story) == story.title # << >>
HasPoints(story) == story.storyPoints # NoPoints
\* the story is to be patched: it has an id and a title or storyPoints
ToPatch(story) == story.id # 0 /\ (HasTitle(story) \/ HasPoints(story))
\* the positions of the stories to patch, in input order
RECURSIVE PatchPositions(_)
PatchPositions(n) ==
    IF n = 0 THEN << >>
    ELSE PatchPositions(n - 1) \o (IF ToPatch(ItemsOf[n]) THEN <<n>> ELSE << >>)
\* the operation of the document on the given path
OpsOn(document, path) == {k \in DOMAIN document : document[k].path = path}
\* the document holds exactly one "add" of the field's value when the field
\* is defined and no operation on it otherwise
PatchesField(document, path, defined, value) ==
    IF defined
    THEN /\ Cardinality(OpsOn(document, path)) = 1
         /\ \A k \in OpsOn(document, path) :
                document[k].op = "add" /\ document[k].value = value
    ELSE OpsOn(document, path) = {}
\* the document of a patch call for the story
IsPatchOf(document, story) ==
    /\ PatchesField(document, "/fields/System.Title", HasTitle(story), story.title)
    /\ PatchesField(document, "/fields/Microsoft.VSTS.Scheduling.StoryPoints",
                    HasPoints(story), story.storyPoints)
    /\ Len(document) = (IF HasTitle(story) THEN 1 ELSE 0)
                       + (IF HasPoints(story) THEN 1 ELSE 0)

\* C22: for a valid /update-stories request over a list of stories, while no
\* call fails: the patch calls issued so far are for the stories that have an
\* id and a defined title or storyPoints, in input order, one each, and no
\* call is for any other story; the document of each holds one operation per
\* defined field and none else; once answered every such story has its call
\* and the response is success with the ids of the patched stories in input
\* order, also when every story of the list was skipped.
C22_UpdatePatchesDefinedFields ==
    (/\ ValidBatch
     /\ req.route = "/update-stories"
     /\ \A i \in DOMAIN ItemsOf : IsItem(ItemsOf[i])
     /\ NoCallFailed) =>
        LET positions == PatchPositions(Len(ItemsOf))
        IN  /\ Len(calls) <= Len(positions)
            /\ \A k \in DOMAIN calls :
                  /\ calls[k].method = "PATCH"
                  /\ calls[k].body.item = positions[k]
                  /\ calls[k].body.value = ItemsOf[positions[k]]
                  /\ IsPatchOf(calls[k].body.document, ItemsOf[positions[k]])
            /\ pc = "done" =>
                  /\ Len(calls) = Len(positions)
                  /\ AnsweredSuccess
                  /\ responses[1].body.updatedIds =
                        [k \in DOMAIN positions |-> ItemsOf[positions[k]].id]
\* a story without an id and the story 4 whose only change is storyPoints 0:
\* one call, for the second story, with the one operation; updatedIds is [4]
C22_Witness ==
    /\ ValidBatch
    /\ req.route = "/update-stories"
    /\ Len(ItemsOf) = 2
    /\ ~ItemsOf[1].isNull /\ ItemsOf[1].id = 0 /\ HasTitle(ItemsOf[1])
    /\ ItemsOf[2].id = 4 /\ ItemsOf[2].storyPoints = 0 /\ ~HasTitle(ItemsOf[2])
    /\ pc = "done"
    /\ Len(calls) = 1
    /\ calls[1].outcome = "ok"
    /\ calls[1].body.item = 2
    /\ calls[1].body.document =
          <<[op |-> "add", path |-> "/fields/Microsoft.VSTS.Scheduling.StoryPoints",
             value |-> 0]>>
    /\ responses = <<[status |-> 200, body |-> [success |-> TRUE, updatedIds |-> <<4>>]]>>

(***************************************************************************)
(* /feature-stories as the specification words it.                         *)
(***************************************************************************)
\* the relations of the feature as the work-tracking API returned them
FeatureRelations ==
    IF calls[1].reply.relations.isArray THEN calls[1].reply.relations.items ELSE << >>
IsForwardLink(rel) == rel.rel = "System.LinkTypes.Hierarchy-Forward"
\* the last URL segment of every forward-hierarchy relation, in relation order
ChildIds ==
    LET links == SelectSeq(FeatureRelations, IsForwardLink)
    IN  [k \in DOMAIN links |-> links[k].url[Len(links[k].url)]]
\* the feature was fetched for an authenticated request
FeatureFetched ==
    /\ req.route = "/feature-stories"
    /\ Authenticated
    /\ calls # << >>
    /\ calls[1].outcome = "ok"

\* C23: once the feature is fetched, with no forward-hierarchy relation the
\* request is answered { stories: [] } and the feature call stays its only
\* call; otherwise exactly one batch-fetch call follows, its ids the last URL
\* segments of the forward-hierarchy relations in relation order, and when
\* it returns the response holds one story per returned item, in the order
\* returned, with the item's id and title.
C23_FeatureStoriesFromForwardLinks ==
    FeatureFetched =>
        /\ calls[1].api = "feature" /\ calls[1].method = "GET"
        /\ ChildIds = << >> =>
              /\ Len(calls) = 1
              /\ pc = "done"
              /\ responses = <<[status |-> 200, body |-> [stories |-> << >>]]>>
        /\ ChildIds # << >> =>
              /\ Len(calls) = 2
              /\ calls[2].api = "workitemsbatch"
              /\ calls[2].body.ids = ChildIds
              /\ calls[2].outcome = "ok" =>
                    /\ pc = "done"
                    /\ Len(responses) = 1
                    /\ responses[1].status = 200
                    /\ DOMAIN responses[1].body = {"stories"}
                    /\ Len(responses[1].body.stories) = Len(calls[2].reply.value)
                    /\ \A k \in DOMAIN calls[2].reply.value :
                          /\ responses[1].body.stories[k].id = calls[2].reply.value[k].id
                          /\ responses[1].body.stories[k].title =
                                calls[2].reply.value[k].fields.title
\* the feature has the children 11 and 12 and a parent 5: the batch fetch asks
\* for "11" and "12" and its two items are answered in the order returned
C23_Witness ==
    /\ FeatureFetched
    /\ Len(FeatureRelations) = 3
    /\ ~IsForwardLink(FeatureRelations[2])
    /\ Len(calls) = 2
    /\ calls[2].body.ids = <<"11", "12">>
    /\ calls[2].outcome = "ok"
    /\ Len(calls[2].reply.value) = 2
    /\ pc = "done"
    /\ responses[1].body.stories[1].id = 11
    /\ responses[1].body.stories[2].id = 12

(***************************************************************************)
(* The methods of the work-tracking calls.                                 *)
(***************************************************************************)
\* the URLs that create a work item of a type, and the URL of an item by id
SpecCreateUrls == {"workitems/$Task", "workitems/$Test%20Case", "workitems/$User%20Story"}
SpecItemUrl == "workitems/${story.id}"

\* C24 as stated: every call that creates a work item is a POST of a
\* JSON-Patch document, and a PATCH is only ever sent to an existing item
\* by its id.
C24_AsStated ==
    \A i \in DOMAIN calls :
        /\ calls[i].api \in SpecCreateUrls =>
              (calls[i].method = "POST" /\ calls[i].body.document # << >>)
        /\ calls[i].method = "PATCH" => calls[i].api = SpecItemUrl

(***************************************************************************)
(* The selected iterations among themselves.                               *)
(***************************************************************************)
\* no two entries of the list are equal
PairwiseDistinct(s) == \A i, j \in DOMAIN s : i # j => s[i] # s[j]

\* C25 as stated: when the iterations the API returned are pairwise distinct,
\* the iterations selected for a success response are pairwise distinct, for
\* every list of requested paths.
C25_AsStated ==
    (Answered200 /\ PairwiseDistinct(mapped)) => PairwiseDistinct(targets)

(***************************************************************************)
(* Exact and suffix matches in tier 1.                                     *)
(***************************************************************************)
\* a dated iteration of the reply has exactly the path p
SpecHasExact(p) ==
    \E i \in DOMAIN iterations :
        SpecDated(iterations[i]) /\ SpecLabel(iterations[i]) = p

\* C26 as stated: when tier 1 selects the targets, a requested path that is
\* exactly the path of a dated iteration resolves to an iteration with that
\* path, whatever other iterations end with the requested path.
C26_AsStated ==
    (Selected /\ tier = 1) =>
        \A k \in 1 .. 3 :
            SpecHasExact(RequestedPaths[k]) => targets[k].path = RequestedPaths[k]

(***************************************************************************)
(* The sign of the capacities.                                             *)
(***************************************************************************)
\* every capacity record the API returned has capacityPerDay >= 0 and daysOff >= 0
NonNegativeRecords ==
    \A i \in DOMAIN allIterationCapacities :
        \A j \in DOMAIN allIterationCapacities[i].activities.items :
            /\ allIterationCapacities[i].activities.items[j].capacityPerDay >= 0
            /\ allIterationCapacities[i].activities.items[j].daysOff >= 0
\* the iteration contains no Monday-to-Friday date
NoBusinessDay(it) == MonToFriDates(it.start, it.finish) = {}
\* every record of the iteration has at least as many days off as the
\* iteration has work days
EveryMemberOff(it) ==
    /\ RecordsOf(it) # {}
    /\ \A x \in RecordsOf(it) : RecordAt(x).daysOff >= WorkDays(it)

NumDated == Cardinality({i \in DOMAIN iterations : SpecDated(iterations[i])})
Min3(n) == IF n < 3 THEN n ELSE 3

\* C28 as stated: the iterations list of a success response has length
\* min(3, number of dated iterations), its i-th entry is the path of the
\* iteration whose capacity is in slot i, and the slots beyond it are 0.
C28_AsStated ==
    Answered200 =>
        LET paths == responses[1].body.iterations
        IN  /\ Len(paths) = Min3(NumDated)
            /\ Len(paths) = Len(targets)
            /\ \A i \in 1 .. 3 :
                  IF i <= Len(paths)
                  THEN /\ paths[i] = targets[i].path
                       /\ Slot(i) = CapacityFor(targets[i], FetchedTeamSize)
                  ELSE Slot(i) = 0

(***************************************************************************)
(* The responses of one request.                                           *)
(***************************************************************************)
\* the request has its response, and it is the only one
AnsweredOnce == pc = "done" /\ Len(responses) = 1
\* one of the calls of the request has not returned
CallOutstanding == \E i \in DOMAIN calls : calls[i].outcome = "pending"
\* the middleware or the handler is about to run
AboutToRun == pc \in {"received", "handler"}

\* C29: on every route a request never has more than one response, a
\* response is its handler's last act, an unanswered request whose handler
\* has begun has an outbound call outstanding, and, every outstanding call
\* returning or failing in the end, every request is answered in the end.
C29_ExactlyOneResponse ==
    /\ [](Len(responses) <= 1)
    /\ []((Len(responses) = 1) <=> (pc = "done"))
    /\ [](responses = << >> => (AboutToRun \/ CallOutstanding))
    /\ [](pc = "done" => ~CallOutstanding)
    /\ <>AnsweredOnce
\* a /compute-capacity request whose member-list call failed and whose other
\* two calls returned has its one response, the capacities
C29_Witness ==
    /\ req.route = "/compute-capacity"
    /\ Len(calls) = 3
    /\ calls[1].outcome = "ok" /\ calls[2].outcome = "failed" /\ calls[3].outcome = "ok"
    /\ AnsweredOnce
    /\ responses[1].status = 200

(***************************************************************************)
(* The sprint-plan prompt of the employees revision.                       *)
(***************************************************************************)
\* the text of the prompt between two of its literal pieces
TextBetween(prompt, before, after) ==
    LET i == CHOOSE i \in DOMAIN prompt : prompt[i] = before
        j == CHOOSE j \in DOMAIN prompt : prompt[j] = after
    IN  SubSeq(prompt, i + 1, j - 1)
\* the decimal text of a number below 100
DecimalText(n) ==
    LET digits == <<"0", "1", "2", "3", "4", "5", "6", "7", "8", "9">>
    IN  IF n < 10 THEN <<digits[n + 1]>>
        ELSE <<digits[(n \div 10) + 1], digits[(n % 10) + 1]>>
\* a sprint-plan request with a number of employees has sent its prompt
PlanSent ==
    /\ req.action = "sprintplan"
    /\ req.employees.present
    /\ calls # << >>

\* C30 as stated: for every number e of employees the capacity per sprint
\* written into the sprint-plan prompt, in the input section and in the
\* summary, is e * 10.
C30_AsStated ==
    PlanSent =>
        /\ TextBetween(calls[1].body.prompt,
              "Capacity Per Employee: 10 Story Points Capacity Per Sprint: ",
              " Story Points User Stories: ")
           = DecimalText(req.employees.n * 10)
        /\ TextBetween(calls[1].body.prompt,
              ", \"capacityPerEmployee\": 10, \"capacityPerSprint\": ",
              ", \"totalStoryPoints\": <calculated> } }")
           = DecimalText(req.employees.n * 10)

====
